---- MODULE Spec2Model ----
(***************************************************************************)
(* Verification model of the proof-search control plane:                   *)
(*   - scheduler/scheduler_service.py   (the two scheduler services)       *)
(*   - compilation_gateway/compilation_worker_restart.py (pool restart)    *)
(*   - compilation_gateway/multiprocess_compiler_pool_shange.py (run_batch)*)
(*   - inference_gateway/gateway.py, compilation_gateway/                  *)
(*     compilation_gateway.py (the two gateways)                           *)
(*   - proofsearch/lightweight/lightweightsearch.py,                       *)
(*     proofsearch/mediumweight/mediumweightsearch.py (the searches)       *)
(*   - proofsearch/mediumweight/utils.py (ProofAnalysis)                   *)
(* Each program is a separate process with its own state, so each has its  *)
(* own specification (SpecSched, SpecWorker, SpecPool, SpecGw, SpecLw,     *)
(* SpecMw, SpecCaller, SpecPA); the variables of the other programs stay   *)
(* at their initial value.                                                 *)
(***************************************************************************)
EXTENDS Integers, Sequences, FiniteSets, TLC

VARIABLES
  \* ---- scheduler_service.py
  sched_kind,      \* which class the instance is: "inference" | "compilation"
  started,         \* whether the worker loops have been created
  queue,           \* self._queue: the entries waiting, in insertion order
  task_counter,    \* self._task_counter
  submitted,       \* number of tasks submitted so far (task id = submission order)
  fut,             \* the asyncio.Future of each task
  wk,              \* each worker loop: where it is and the entry it holds
  inflight,        \* tasks whose upstream HTTP request is outstanding
  raised,          \* ghost: the error the upstream HTTP call produced, per task
  setCount,        \* ghost: number of set_result/set_exception calls per future
  \* ---- compilation_worker_restart.py
  pool_lock,       \* POOL_LOCK: the coroutine that holds it, or NoHolder
  lock_waiters,    \* POOL_LOCK._waiters: the coroutines waiting, in order
  pool_state,      \* each MultiProcessCompilerPool ever made: its life stage
  compiler_pool,   \* app.state.compiler_pool: the pool installed
  created,         \* number of pools created so far
  req,             \* the /compile and /compile_one request handlers
  rst,             \* the callers of _perform_pool_restart
  \* ---- multiprocess_compiler_pool_shange.py
  task_queue,      \* self.task_queue: the envelopes waiting for a child
  result_list,     \* self.result_list: what the children appended
  child,           \* the envelopes the child processes running worker() hold
  rb,              \* the threads running run_batch on the pool
  batches,         \* number of batch ids drawn so far
  \* ---- inference_gateway/gateway.py, compilation_gateway/compilation_gateway.py
  gw_kind,         \* which gateway the process is: "llm" | "comp"
  WORKER_POOL,     \* llm: model name -> list of {url, path}; comp: list of urls
  MODEL_INDICES,   \* llm: model name -> cursor
  WORKER_INDEX,    \* comp: the cursor
  hc,              \* health_check_workers: where it is, what it has found
  sel,             \* ghost: the last selection of get_next_worker(_for_model)
  rr_log,          \* ghost: per pool, the workers selected since it last changed
  rr_moved,        \* ghost: per pool, whether it changed after a selection
  \* ---- proofsearch/lightweight/lightweightsearch.py,
  \* ---- proofsearch/mediumweight/mediumweightsearch.py
  search_kind,     \* which orchestrator runs: "lw" | "mw"
  pass,            \* the pass tasks of task_list: where each is, what it holds
  sub,             \* mw: per pass, the lightweight_inference task of each lemma
  orch,            \* the orchestrator task: loop state, results, return value
  done_q,          \* as_completed: the finished pass tasks, in finishing order
  combined_token_usage,  \* the dict shared by the orchestrator and its passes
  usage_seen,      \* ghost: sum of the usage of every response a pass received
  faults,          \* ghost: how many calls raised or gave an unusable response
  \* ---- lightweight passes as callers of the inference scheduler
  asked,           \* per task: the problem, round and priority it was submitted with
  ready,           \* per problem and stage: the passes about to issue that request
  \* ---- proofsearch/mediumweight/utils.py
  pa,              \* the ProofAnalysis object of a pass: its fields
  \* ---- split_import_and_body and the dependency queries of ProofAnalysis
  split,           \* a Lean source, the text handed to the compiler, its split
  da,              \* a verified ProofAnalysis and the answer to a query on it
  \* ---- inference_gateway/gateway.py: POST /register
  reg,             \* ghost: the last body /register refused, and its response
  \* ---- ProofAnalysis.verify_all_lemmas on its event loop
  ver              \* the verification tasks, the loop's callbacks, the compilations

schedVars == <<sched_kind, started, queue, task_counter, submitted, fut, wk,
               inflight, raised, setCount>>

workerVars == <<pool_lock, lock_waiters, pool_state, compiler_pool, created,
                req, rst>>

poolVars == <<task_queue, result_list, child, rb, batches>>

gwVars == <<gw_kind, WORKER_POOL, MODEL_INDICES, WORKER_INDEX, hc, sel, rr_log,
            rr_moved>>

searchVars == <<search_kind, pass, sub, orch, done_q, combined_token_usage,
                usage_seen, faults>>

callerVars == <<asked, ready>>

paVars == <<pa>>

splitVars == <<split>>

depVars == <<da>>

regVars == <<reg>>

verVars == <<ver>>

vars == <<schedVars, workerVars, poolVars, gwVars, searchVars, callerVars,
          paVars, splitVars, depVars, regVars, verVars>>

\* What each program leaves alone: the state of the other programs.
notSched == <<workerVars, poolVars, gwVars, searchVars, callerVars, paVars,
              splitVars, depVars, regVars, verVars>>
notWorker == <<schedVars, poolVars, gwVars, searchVars, callerVars, paVars,
               splitVars, depVars, regVars, verVars>>
notPool == <<schedVars, workerVars, gwVars, searchVars, callerVars, paVars,
             splitVars, depVars, regVars, verVars>>
notGw == <<schedVars, workerVars, poolVars, searchVars, callerVars, paVars,
           splitVars, depVars, regVars, verVars>>
notSearch == <<schedVars, workerVars, poolVars, gwVars, callerVars, paVars,
               splitVars, depVars, regVars, verVars>>
notCaller == <<workerVars, poolVars, gwVars, searchVars, paVars,
               splitVars, depVars, regVars, verVars>>
notPA == <<schedVars, workerVars, poolVars, gwVars, searchVars, callerVars,
           splitVars, depVars, regVars, verVars>>
notSplit == <<schedVars, workerVars, poolVars, gwVars, searchVars, callerVars,
              paVars, depVars, regVars, verVars>>
notDep == <<schedVars, workerVars, poolVars, gwVars, searchVars, callerVars,
            paVars, splitVars, regVars, verVars>>
notVer == <<schedVars, workerVars, poolVars, gwVars, searchVars, callerVars,
            splitVars, depVars, regVars>>

----------------------------------------------------------------------------
\* Bounds of the model
MaxTasks == 4
NumWorkers == 2
MaxCancels == 1   \* callers cancelled over the whole run

\* Priority definitions (scheduler_service.py)
P_REVISION == 0
P_INITIAL == 2

\* The priorities callers submit with
Priorities == {P_REVISION, P_INITIAL}
TaskIds == 1..MaxTasks
WorkerIds == 1..NumWorkers

\* What the gateway does with one request: a 2xx reply, a non-2xx reply
\* (raise_for_status -> httpx.HTTPStatusError), or a transport failure
\* (httpx.RequestError).
Outcomes == {"ok", "HTTPStatusError", "RequestError"}

NoFuture == [st |-> "none", val |-> "-"]
PendingFuture == [st |-> "pending", val |-> "-"]
IdleWorker == [pc |-> "get", task |-> 0, futAtDeq |-> "-"]
NotStarted == [pc |-> "unborn", task |-> 0, futAtDeq |-> "-"]

\* asyncio.Future.done()
FutureDone(f) == f.st \in {"result", "exception", "cancelled"}

----------------------------------------------------------------------------
\* The queue disciplines

\* Python tuple comparison of two PriorityQueue entries
\* (priority, count, task_data, future): the first two fields decide.
TupleLess(a, b) ==
  \/ a.priority < b.priority
  \/ a.priority = b.priority /\ a.count < b.count

\* asyncio.Queue._get: popleft.
FifoGet(q) == 1

\* asyncio.PriorityQueue._get: heappop, the position of the least entry.
HeapGet(q) ==
  CHOOSE i \in 1..Len(q) : \A j \in 1..Len(q) : j # i => ~TupleLess(q[j], q[i])

\* Mutant: the inference scheduler built on a plain asyncio.Queue.
QueueGetFifo(kind, q) == FifoGet(q)

\* The position of the entry self._queue.get() returns.
QueueGet(kind, q) == IF kind = "inference" THEN HeapGet(q) ELSE FifoGet(q)

RemoveAt(q, i) == SubSeq(q, 1, i - 1) \o SubSeq(q, i + 1, Len(q))

----------------------------------------------------------------------------
\* _make_api_call under its @retry decorator.  A 2xx reply is parsed and
\* returned.  raise_for_status raises HTTPStatusError, which the retry
\* predicate (retry_if_exception_type(httpx.RequestError)) does not match, so
\* it propagates as it is.  A RequestError matches the predicate; the stop
\* condition stop_after_attempt(0) / stop_after_attempt(1) is already met
\* after the first attempt and reraise is not set, so the decorator raises
\* tenacity.RetryError in its place.
MakeApiCall(outcome) ==
  CASE outcome = "ok" -> [raises |-> FALSE, val |-> "result"]
    [] outcome = "HTTPStatusError" -> [raises |-> TRUE, val |-> "HTTPStatusError"]
    [] outcome = "RequestError" -> [raises |-> TRUE, val |-> "RetryError"]

\* Mutant: no "except Exception" around the call, the loop ends with it.
DiesOnException(r) == IF r.raises THEN "dead" ELSE "get"

\* Where the worker loop continues after one task: "except Exception" keeps
\* the loop alive and "while True" takes the next entry.
LoopAfter(r) == "get"

\* Mutant: set_result / set_exception without the guard.
SetsFutureUnguarded(f) == TRUE

\* "if not future.done()": whether the worker calls set_result /
\* set_exception on the future.
SetsFuture(f) == ~FutureDone(f)

\* What set_result(result) / set_exception(e) leave in the future.
Completed(r) == [st |-> IF r.raises THEN "exception" ELSE "result", val |-> r.val]

----------------------------------------------------------------------------
\* Scheduler actions

SchedInitOf(kind) ==
  /\ sched_kind = kind
  /\ started = (kind = "compilation")  \* CompilationSchedulerService.__init__
                                       \* creates its workers itself
  /\ queue = <<>>
  /\ task_counter = 0
  /\ submitted = 0
  /\ fut = [t \in TaskIds |-> NoFuture]
  /\ wk = [w \in WorkerIds |-> IF kind = "compilation" THEN IdleWorker ELSE NotStarted]
  /\ inflight = {}
  /\ raised = [t \in TaskIds |-> "-"]
  /\ setCount = [t \in TaskIds |-> 0]

\* InferenceSchedulerService.start
Start ==
  /\ sched_kind = "inference"
  /\ ~started
  /\ started' = TRUE
  /\ wk' = [w \in WorkerIds |-> IdleWorker]
  /\ UNCHANGED <<sched_kind, queue, task_counter, submitted, fut, inflight,
                 raised, setCount>>
  /\ UNCHANGED notSched

\* InferenceSchedulerService.inference up to "await future"
Inference(p) ==
  /\ sched_kind = "inference"
  /\ submitted < MaxTasks
  /\ submitted' = submitted + 1
  /\ fut' = [fut EXCEPT ![submitted + 1] = PendingFuture]
  /\ queue' = Append(queue, [priority |-> p, count |-> task_counter,
                             id |-> submitted + 1])
  /\ task_counter' = task_counter + 1
  /\ UNCHANGED <<sched_kind, started, wk, inflight, raised, setCount>>
  /\ UNCHANGED notSched

\* CompilationSchedulerService.compile up to "await future"
Compile ==
  /\ sched_kind = "compilation"
  /\ submitted < MaxTasks
  /\ submitted' = submitted + 1
  /\ fut' = [fut EXCEPT ![submitted + 1] = PendingFuture]
  /\ queue' = Append(queue, [priority |-> 0, count |-> 0, id |-> submitted + 1])
  /\ UNCHANGED <<sched_kind, started, task_counter, wk, inflight, raised, setCount>>
  /\ UNCHANGED notSched

\* The caller's task is cancelled while it awaits the future: the future is
\* cancelled with it.
Abandon(t) ==
  /\ fut[t].st = "pending"
  /\ Cardinality({u \in TaskIds : fut[u].st = "cancelled"}) < MaxCancels
  /\ fut' = [fut EXCEPT ![t] = [st |-> "cancelled", val |-> "-"]]
  /\ UNCHANGED <<sched_kind, started, queue, task_counter, submitted, wk,
                 inflight, raised, setCount>>
  /\ UNCHANGED notSched

\* _worker: "await self._queue.get()" returns an entry and the worker goes
\* straight into _make_api_call, which posts the request.
WorkerGet(w) ==
  /\ wk[w].pc = "get"
  /\ queue # <<>>
  /\ LET i == QueueGet(sched_kind, queue)
         e == queue[i]
     IN /\ queue' = RemoveAt(queue, i)
        /\ wk' = [wk EXCEPT ![w] = [pc |-> "call", task |-> e.id,
                                    futAtDeq |-> fut[e.id].st]]
        /\ inflight' = inflight \cup {e.id}
  /\ UNCHANGED <<sched_kind, started, task_counter, submitted, fut, raised, setCount>>
  /\ UNCHANGED notSched

\* _worker: the HTTP round trip ends with `outcome`; the try/except/finally
\* block runs to its end.
WorkerDone(w, outcome) ==
  /\ wk[w].pc = "call"
  /\ LET t == wk[w].task
         r == MakeApiCall(outcome)
     IN /\ inflight' = inflight \ {t}
        /\ raised' = [raised EXCEPT ![t] = outcome]
        /\ IF SetsFuture(fut[t])
             THEN /\ fut' = [fut EXCEPT ![t] =
                               IF FutureDone(fut[t])
                                 THEN @  \* InvalidStateError, the future is kept
                                 ELSE Completed(r)]
                  /\ setCount' = [setCount EXCEPT ![t] = @ + 1]
             ELSE UNCHANGED <<fut, setCount>>
        /\ wk' = [wk EXCEPT ![w] = [pc |-> LoopAfter(r), task |-> 0,
                                    futAtDeq |-> "-"]]
  /\ UNCHANGED <<sched_kind, started, queue, task_counter, submitted>>
  /\ UNCHANGED notSched

SchedNext ==
  \/ Start
  \/ \E p \in Priorities : Inference(p)
  \/ Compile
  \/ \E t \in TaskIds : Abandon(t)
  \/ \E w \in WorkerIds : WorkerGet(w)
  \/ \E w \in WorkerIds, o \in Outcomes : WorkerDone(w, o)

----------------------------------------------------------------------------
\* compilation_worker_restart.py: the compilation worker with pool restart

NumReqs == 1
NumRestarters == 2
MaxPools == 2

ReqIds == 1..NumReqs
RstIds == 1..NumRestarters   \* 1 is periodic_restarter, the others are
                             \* POST /restart_pool handlers
PoolIds == 1..MaxPools

NoHolder == <<"none", 0>>
IdleReq == [pc |-> "idle", pool |-> 0, seenPool |-> 0, duringRestart |-> FALSE,
            status |-> 0]
IdleRst == [pc |-> "idle", result |-> "-"]

\* A pool is Ready from start_workers until shutdown begins.
Ready(p) == pool_state[p] = "ready"

\* asyncio.Lock.acquire, fast path: the lock is free and nobody waits.
CanAcquireNow == pool_lock = NoHolder /\ lock_waiters = <<>>

\* Mutant: a waiter goes on as soon as it is first in line.
CanWakeUnlocked(p) == lock_waiters # <<>> /\ Head(lock_waiters) = p

\* asyncio.Lock.acquire, slow path: release woke the first waiter.
CanWake(p) ==
  pool_lock = NoHolder /\ lock_waiters # <<>> /\ Head(lock_waiters) = p

WorkerInit ==
  /\ pool_lock = NoHolder
  /\ lock_waiters = <<>>
  /\ pool_state = [p \in PoolIds |-> IF p = 1 THEN "ready" ELSE "unborn"]
  /\ compiler_pool = 1       \* startup_event: _create_and_start_pool
  /\ created = 1
  /\ req = [q \in ReqIds |-> IdleReq]
  /\ rst = [r \in RstIds |-> IdleRst]

\* compile_batch / compile_one: the request arrives and reaches "async with
\* lock"; with the lock in hand it reads app.state.compiler_pool and hands
\* run_batch to the executor.
ReqArrive(q) ==
  /\ req[q].pc \in {"idle", "done"}
  /\ LET seen == [IdleReq EXCEPT !.seenPool = compiler_pool,
                                 !.duringRestart = (pool_lock[1] = "rst")]
     IN IF CanAcquireNow
          THEN /\ pool_lock' = <<"req", q>>
               /\ req' = [req EXCEPT ![q] = [seen EXCEPT !.pc = "run",
                                                         !.pool = compiler_pool]]
               /\ UNCHANGED lock_waiters
          ELSE /\ lock_waiters' = Append(lock_waiters, <<"req", q>>)
               /\ req' = [req EXCEPT ![q] = [seen EXCEPT !.pc = "wait"]]
               /\ UNCHANGED pool_lock
  /\ UNCHANGED <<pool_state, compiler_pool, created, rst>>
  /\ UNCHANGED notWorker

\* The waiting request is woken, takes the lock and starts run_batch.
ReqWake(q) ==
  /\ req[q].pc = "wait"
  /\ CanWake(<<"req", q>>)
  /\ pool_lock' = <<"req", q>>
  /\ lock_waiters' = Tail(lock_waiters)
  /\ req' = [req EXCEPT ![q].pc = "run", ![q].pool = compiler_pool]
  /\ UNCHANGED <<pool_state, compiler_pool, created, rst>>
  /\ UNCHANGED notWorker

\* run_batch ends: it returns the results (its children answered), or it
\* raises and the handler answers 500.  On a pool whose children are gone
\* run_batch polls for ever.  "async with" releases the lock.
ReqFinish(q, out) ==
  /\ req[q].pc = "run"
  /\ out = "ok" => pool_state[req[q].pool] \in {"ready", "broken"}
  /\ req' = [req EXCEPT ![q].pc = "done",
                        ![q].status = IF out = "ok" THEN 200 ELSE 500]
  /\ pool_lock' = NoHolder
  /\ UNCHANGED <<lock_waiters, pool_state, compiler_pool, created, rst>>
  /\ UNCHANGED notWorker

\* periodic_restarter's timer fires, or POST /restart_pool with the right
\* token arrives: _perform_pool_restart runs up to "await lock.acquire()".
RestartCall(r) ==
  /\ rst[r].pc \in {"idle", "done"}
  /\ IF CanAcquireNow
       THEN /\ pool_lock' = <<"rst", r>>
            /\ rst' = [rst EXCEPT ![r] = [pc |-> "shutdown", result |-> "-"]]
            /\ UNCHANGED lock_waiters
       ELSE /\ lock_waiters' = Append(lock_waiters, <<"rst", r>>)
            /\ rst' = [rst EXCEPT ![r] = [pc |-> "wait", result |-> "-"]]
            /\ UNCHANGED pool_lock
  /\ UNCHANGED <<pool_state, compiler_pool, created, req>>
  /\ UNCHANGED notWorker

RestartWake(r) ==
  /\ rst[r].pc = "wait"
  /\ CanWake(<<"rst", r>>)
  /\ pool_lock' = <<"rst", r>>
  /\ lock_waiters' = Tail(lock_waiters)
  /\ rst' = [rst EXCEPT ![r].pc = "shutdown"]
  /\ UNCHANGED <<pool_state, compiler_pool, created, req>>
  /\ UNCHANGED notWorker

\* Step 2 of _perform_pool_restart: old_pool.shutdown in the executor.  If it
\* raises, the except branch releases the lock and re-raises; the pool it
\* was shutting down stays installed.
RestartShutdown(r, ok) ==
  /\ rst[r].pc = "shutdown"
  /\ IF ok
       THEN /\ pool_state' = [pool_state EXCEPT ![compiler_pool] = "shutdown"]
            /\ rst' = [rst EXCEPT ![r].pc = "create"]
            /\ UNCHANGED pool_lock
       ELSE /\ pool_state' = [pool_state EXCEPT ![compiler_pool] =
                                IF @ = "shutdown" THEN @ ELSE "broken"]
            /\ rst' = [rst EXCEPT ![r] = [pc |-> "done", result |-> "failed"]]
            /\ pool_lock' = NoHolder
  /\ UNCHANGED <<lock_waiters, compiler_pool, created, req>>
  /\ UNCHANGED notWorker

\* Steps 3 to 5: _create_and_start_pool in the executor, the swap and the
\* release.  If the creation raises, the except branch releases the lock and
\* re-raises; app.state.compiler_pool is not assigned.
RestartCreate(r, ok) ==
  /\ rst[r].pc = "create"
  /\ IF ok
       THEN /\ created < MaxPools
            /\ created' = created + 1
            /\ pool_state' = [pool_state EXCEPT ![created + 1] = "ready"]
            /\ compiler_pool' = created + 1
            /\ rst' = [rst EXCEPT ![r] = [pc |-> "done", result |-> "ok"]]
       ELSE /\ rst' = [rst EXCEPT ![r] = [pc |-> "done", result |-> "failed"]]
            /\ UNCHANGED <<created, pool_state, compiler_pool>>
  /\ pool_lock' = NoHolder
  /\ UNCHANGED <<lock_waiters, req>>
  /\ UNCHANGED notWorker

\* The task running _perform_pool_restart is cancelled while it awaits the
\* executor: CancelledError is no Exception, so the except branch does not
\* run and neither lock.release() is reached.  The executor thread is not
\* interrupted: a shutdown under way is carried out, a pool under creation
\* is never installed.
RestartCancel(r) ==
  /\ rst[r].pc \in {"shutdown", "create"}
  /\ pool_state' = IF rst[r].pc = "shutdown"
                     THEN [pool_state EXCEPT ![compiler_pool] = "shutdown"]
                   ELSE pool_state
  /\ rst' = [rst EXCEPT ![r] = [pc |-> "done", result |-> "cancelled"]]
  /\ UNCHANGED <<pool_lock, lock_waiters, compiler_pool, created, req>>
  /\ UNCHANGED notWorker

WorkerNext ==
  \/ \E q \in ReqIds : ReqArrive(q)
  \/ \E q \in ReqIds : ReqWake(q)
  \/ \E q \in ReqIds, out \in {"ok", "raise"} : ReqFinish(q, out)
  \/ \E r \in RstIds : RestartCall(r)
  \/ \E r \in RstIds : RestartWake(r)
  \/ \E r \in RstIds, ok \in BOOLEAN : RestartShutdown(r, ok)
  \/ \E r \in RstIds, ok \in BOOLEAN : RestartCreate(r, ok)
  \/ \E r \in RstIds : RestartCancel(r)

----------------------------------------------------------------------------
\* multiprocess_compiler_pool_shange.py: the process pool and run_batch

NumCallers == 2
NumChildren == 2
MaxBatch == 2
MaxEnvelopes == 4    \* tasks handed to the pool over the whole run

CallerIds == 1..NumCallers

\* The batches caller c may send: up to MaxBatch tasks, each with a name of
\* its own, <<c, i>>
Batches(c) == {[i \in 1..n |-> <<c, i>>] : n \in 0..MaxBatch}

IdleCaller == [pc |-> "idle", tasks |-> <<>>, batch_id |-> 0, i |-> 0,
               collected |-> <<>>, ret |-> <<>>]

\* run_batch: {"payload": task, "index": i, "batch_id": batch_id}
Envelope(task, i, id) == [payload |-> task, index |-> i, batch_id |-> id]

\* What "lake exe repl" does on a command: it answers with JSON that lists
\* no error and no sorry, a sorry, or an error; or the run gives no such
\* answer: the process cannot be run or its output is cut short, it
\* exceeds import_timeout + proof_timeout, or its output is not JSON.
ReplRuns == <<"proved", "crash", "timeout", "non_json", "error", "sorry">>

ReplFailures == {"crash", "timeout", "non_json"}

\* The run is a function of the code of the task.
ReplRun(task) == ReplRuns[((2 * (task[2] - 1) + (task[1] - 1)) % Len(ReplRuns)) + 1]

\* Mutant: the except branch leaves system_errors unset.
VerifyLean4FileSilent(run) ==
  [pass |-> run \in {"proved", "sorry"}, complete |-> run = "proved",
   system_errors |-> "None"]

\* verify_lean4_file: the result built from the JSON answer, or, on any
\* exception (bare "except:"), the failure result with the traceback
VerifyLean4File(run) ==
  IF run \in ReplFailures
    THEN [pass |-> FALSE, complete |-> FALSE, system_errors |-> "traceback"]
  ELSE [pass |-> run \in {"proved", "sorry"}, complete |-> run = "proved",
        system_errors |-> "None"]

\* worker(): final_response, the payload with compilation_result, index and
\* batch_id
FinalResponse(env) ==
  [payload |-> env.payload,
   compilation_result |-> VerifyLean4File(ReplRun(env.payload)),
   index |-> env.index, batch_id |-> env.batch_id]

\* run_batch: [r for r in self.result_list if r.get("batch_id") == batch_id]
ResultsForBatch(l, id) == SelectSeq(l, LAMBDA r : r.batch_id = id)

\* run_batch: [r for r in self.result_list if r.get("batch_id") != batch_id]
Remaining(l, id) == SelectSeq(l, LAMBDA r : r.batch_id # id)

\* Mutant: the collected results returned in arrival order.
Unsorted(l) == l

\* sorted(collected_results, key=lambda r: r["index"]): stable, ascending
RECURSIVE SortedByIndex(_)
SortedByIndex(l) ==
  IF l = <<>> THEN <<>>
  ELSE LET m == CHOOSE i \in 1..Len(l) :
                  \A j \in 1..Len(l) :
                    \/ l[j].index > l[i].index
                    \/ l[j].index = l[i].index /\ j >= i
       IN <<l[m]>> \o SortedByIndex(RemoveAt(l, m))

\* res.pop("index", None); res.pop("batch_id", None)
Popped(r) == [payload |-> r.payload, compilation_result |-> r.compilation_result]

\* The list run_batch returns from what it collected.
Returned(collected) ==
  LET sorted == SortedByIndex(collected)
  IN [i \in 1..Len(sorted) |-> Popped(sorted[i])]

\* The number of tasks the callers 1..c have handed to run_batch so far
RECURSIVE Handed(_)
Handed(c) == IF c = 0 THEN 0 ELSE Len(rb[c].tasks) + Handed(c - 1)

PoolInit ==
  /\ task_queue = <<>>
  /\ result_list = <<>>
  /\ child = {}        \* start_workers: NumChildren processes, all idle
  /\ rb = [c \in CallerIds |-> IdleCaller]
  /\ batches = 0

\* run_batch(tasks) up to the first put: an empty batch returns [] at once,
\* otherwise a fresh batch id (uuid4) is drawn.
RunBatch(c, tasks) ==
  /\ rb[c].pc = "idle"
  /\ Handed(NumCallers) + Len(tasks) <= MaxEnvelopes
  /\ IF tasks = <<>>
       THEN /\ rb' = [rb EXCEPT ![c] = [IdleCaller EXCEPT !.pc = "done"]]
            /\ UNCHANGED batches
       ELSE /\ batches' = batches + 1
            /\ rb' = [rb EXCEPT ![c] = [IdleCaller EXCEPT !.pc = "put",
                                                          !.tasks = tasks,
                                                          !.batch_id = batches + 1]]
  /\ UNCHANGED <<task_queue, result_list, child>>
  /\ UNCHANGED notPool

\* run_batch: one self.task_queue.put of the enumerate loop
Put(c) ==
  /\ rb[c].pc = "put"
  /\ task_queue' = Append(task_queue,
                          Envelope(rb[c].tasks[rb[c].i + 1], rb[c].i, rb[c].batch_id))
  /\ rb' = [rb EXCEPT ![c].i = @ + 1,
                      ![c].pc = IF rb[c].i + 1 = Len(rb[c].tasks) THEN "poll" ELSE "put"]
  /\ UNCHANGED <<result_list, child, batches>>
  /\ UNCHANGED notPool

\* run_batch: one round of the polling loop that finds the batch complete
\* (under self.lock), then the sort and the return.  A round that finds
\* fewer results changes nothing.
Poll(c) ==
  /\ rb[c].pc = "poll"
  /\ LET mine == ResultsForBatch(result_list, rb[c].batch_id)
     IN /\ Len(mine) >= Len(rb[c].tasks)
        /\ result_list' = Remaining(result_list, rb[c].batch_id)
        /\ rb' = [rb EXCEPT ![c].pc = "done",
                            ![c].collected = mine,
                            ![c].ret = Returned(mine)]
  /\ UNCHANGED <<task_queue, child, batches>>
  /\ UNCHANGED notPool

\* worker(): indexed_task = task_queue.get() in a child that is idle
ChildGet ==
  /\ Cardinality(child) < NumChildren
  /\ task_queue # <<>>
  /\ child' = child \cup {Head(task_queue)}
  /\ task_queue' = Tail(task_queue)
  /\ UNCHANGED <<result_list, rb, batches>>
  /\ UNCHANGED notPool

\* worker(): verify_lean4_file ends in the child that holds `env` and the
\* response is appended under the lock.
ChildAppend(env) ==
  /\ env \in child
  /\ result_list' = Append(result_list, FinalResponse(env))
  /\ child' = child \ {env}
  /\ UNCHANGED <<task_queue, rb, batches>>
  /\ UNCHANGED notPool

PoolNext ==
  \/ \E c \in CallerIds : \E tasks \in Batches(c) : RunBatch(c, tasks)
  \/ \E c \in CallerIds : Put(c)
  \/ \E c \in CallerIds : Poll(c)
  \/ ChildGet
  \/ \E env \in child : ChildAppend(env)

----------------------------------------------------------------------------
\* The gateways: inference_gateway/gateway.py (llm) and
\* compilation_gateway/compilation_gateway.py (comp)

MaxLog == 3      \* selections recorded per pool since it last changed

Urls == {"A", "B"}
Models == {"m1", "m2"}
Flat == "flat"   \* the name the ghosts use for the single pool of comp

\* register_worker (llm): worker_info = {"url": worker_url, "path": model_path}
WorkerInfo(url, model) == [url |-> url, path |-> <<"path", model>>]

HcIdle == [pc |-> "sleep", left |-> {}, unhealthy |-> {}, during |-> {},
           done |-> FALSE]
NoSel == [status |-> 0, pool |-> Flat, cursor |-> 0, idx |-> 0, url |-> "-",
          workers |-> <<>>, next |-> 0]

\* Mutant: every registration is taken for a new worker.
HasUrlNever(workers, url) == FALSE

\* any(w['url'] == worker_url for w in WORKER_POOL[model_name])
HasUrl(workers, url) == \E i \in 1..Len(workers) : workers[i].url = url

\* {w['url'] for workers in WORKER_POOL.values() for w in workers}
AllWorkers(wp) == UNION {{wp[m][i].url : i \in 1..Len(wp[m])} : m \in DOMAIN wp}

SeqRange(l) == {l[i] : i \in 1..Len(l)}

\* Mutant: the cursor used as it was saved.
SavedCursor(cursor, n) == cursor

\* get_next_worker(_for_model): "if current_index >= len(workers):
\* current_index = 0"
CurrentIndex(cursor, n) == IF cursor >= n THEN 0 ELSE cursor

\* Mutant: the cursor is stored without being advanced.
SameIndex(idx, n) == idx % n

\* (current_index + 1) % len(workers)
NextIndex(idx, n) == (idx + 1) % n

\* Mutant: the filter inverted, only the unhealthy workers are kept.
KeepUnhealthy(workers, unhealthy) ==
  SelectSeq(workers, LAMBDA w : w.url \in unhealthy)

\* health_check_workers (llm): [w for w in workers if w['url'] != url], for
\* every unhealthy url
KeepHealthy(workers, unhealthy) ==
  SelectSeq(workers, LAMBDA w : w.url \notin unhealthy)

\* health_check_workers (comp): WORKER_POOL.remove(url) for every unhealthy
\* url that is in the pool
RemoveUnhealthy(workers, unhealthy) ==
  SelectSeq(workers, LAMBDA u : u \notin unhealthy)

\* The ghost log of a pool after one more selection
Logged(log, url) == IF Len(log) < MaxLog THEN Append(log, url) ELSE log

GwInitOf(kind) ==
  /\ gw_kind = kind
  /\ WORKER_POOL = <<>>       \* llm: {} (no model); comp: []
  /\ MODEL_INDICES = <<>>     \* llm: {}
  /\ WORKER_INDEX = 0
  /\ hc = HcIdle
  /\ sel = NoSel
  /\ rr_log = [k \in Models \cup {Flat} |-> <<>>]
  /\ rr_moved = [k \in Models \cup {Flat} |-> FALSE]

\* POST /register (llm) with url, model_name and model_path given
RegisterLlm(url, model) ==
  /\ gw_kind = "llm"
  /\ LET fresh == model \notin DOMAIN WORKER_POOL
         workers == IF fresh THEN <<>> ELSE WORKER_POOL[model]
         isNew == ~HasUrl(workers, url)
         after == IF isNew THEN Append(workers, WorkerInfo(url, model)) ELSE workers
     IN /\ WORKER_POOL' = [m \in DOMAIN WORKER_POOL \cup {model} |->
                             IF m = model THEN after ELSE WORKER_POOL[m]]
        /\ MODEL_INDICES' = [m \in DOMAIN MODEL_INDICES \cup {model} |->
                               IF m = model /\ fresh THEN 0 ELSE MODEL_INDICES[m]]
        /\ rr_log' = [rr_log EXCEPT ![model] = IF isNew THEN <<>> ELSE @]
        /\ rr_moved' = [rr_moved EXCEPT ![model] =
                          IF fresh THEN FALSE
                          ELSE IF isNew THEN @ \/ rr_log[model] # <<>> ELSE @]
        /\ hc' = IF isNew /\ hc.pc = "probe"
                   THEN [hc EXCEPT !.during = @ \cup {url}] ELSE hc
  /\ UNCHANGED <<gw_kind, WORKER_INDEX, sel>>
  /\ UNCHANGED notGw

\* POST /register (llm): what a body holds for the three keys the handler
\* reads with data.get; None stands for a key that is absent, null or empty
None == "None"
RegisterBodies ==
  [url : Urls \cup {None}, model_name : Models \cup {None},
   model_path : {"path", None}]

\* all([worker_url, model_name, model_path])
AllGiven(data) ==
  data.url # None /\ data.model_name # None /\ data.model_path # None

\* The status of the response when the body of the try block raises
\* HTTPException(status_code): HTTPException is an Exception, so the handler's
\* "except Exception as e" catches it and raises HTTPException(500) in its
\* place.
RaisedInTry(status_code) == 500

NoReg == [data |-> [url |-> None, model_name |-> None, model_path |-> None],
          status |-> 0]
RegInit == reg = NoReg

\* POST /register (llm) with a body in which one of the keys is missing: the
\* check of the keys raises before the pool is looked at
RegisterLlmRefused(data) ==
  /\ gw_kind = "llm"
  /\ ~AllGiven(data)
  /\ reg' = [data |-> data, status |-> RaisedInTry(400)]
  /\ UNCHANGED gwVars
  /\ UNCHANGED <<schedVars, workerVars, poolVars, searchVars, callerVars,
                 paVars, splitVars, depVars, verVars>>

\* POST /register (comp) with url given
RegisterComp(url) ==
  /\ gw_kind = "comp"
  /\ LET isNew == url \notin SeqRange(WORKER_POOL)
     IN /\ WORKER_POOL' = IF isNew THEN Append(WORKER_POOL, url) ELSE WORKER_POOL
        /\ rr_log' = [rr_log EXCEPT ![Flat] = IF isNew THEN <<>> ELSE @]
        /\ rr_moved' = [rr_moved EXCEPT ![Flat] =
                          IF isNew THEN @ \/ rr_log[Flat] # <<>> ELSE @]
        /\ hc' = IF isNew /\ hc.pc = "probe"
                   THEN [hc EXCEPT !.during = @ \cup {url}] ELSE hc
  /\ UNCHANGED <<gw_kind, MODEL_INDICES, WORKER_INDEX, sel>>
  /\ UNCHANGED notGw

\* health_check_workers: the sleep ends and the urls to probe are read under
\* the lock.
HcSnapshot ==
  /\ hc.pc = "sleep"
  /\ hc' = [HcIdle EXCEPT !.pc = "probe",
                          !.left = IF gw_kind = "llm" THEN AllWorkers(WORKER_POOL)
                                   ELSE SeqRange(WORKER_POOL)]
  /\ UNCHANGED <<gw_kind, WORKER_POOL, MODEL_INDICES, WORKER_INDEX, sel, rr_log,
                 rr_moved>>
  /\ UNCHANGED notGw

\* health_check_workers: GET {url}/health answers 200 (ok), or answers
\* something else or fails in transport.
HcProbe(url, ok) ==
  /\ hc.pc = "probe"
  /\ url \in hc.left
  /\ hc' = [hc EXCEPT !.left = @ \ {url},
                      !.unhealthy = IF ok THEN @ ELSE @ \cup {url}]
  /\ UNCHANGED <<gw_kind, WORKER_POOL, MODEL_INDICES, WORKER_INDEX, sel, rr_log,
                 rr_moved>>
  /\ UNCHANGED notGw

\* health_check_workers (llm): all probes done; the unhealthy urls are
\* removed from every pool under the lock, and a pool left empty is deleted
\* with its cursor.
HcEvictLlm ==
  /\ gw_kind = "llm"
  /\ hc.pc = "probe"
  /\ hc.left = {}
  /\ LET kept == [m \in DOMAIN WORKER_POOL |->
                    KeepHealthy(WORKER_POOL[m], hc.unhealthy)]
         alive == {m \in DOMAIN WORKER_POOL : kept[m] # <<>>}
         changed == {m \in DOMAIN WORKER_POOL : kept[m] # WORKER_POOL[m]}
     IN /\ WORKER_POOL' = [m \in alive |-> kept[m]]
        /\ MODEL_INDICES' = [m \in DOMAIN MODEL_INDICES \cap alive |->
                               MODEL_INDICES[m]]
        /\ rr_log' = [k \in DOMAIN rr_log |-> IF k \in changed THEN <<>> ELSE rr_log[k]]
        /\ rr_moved' = [k \in DOMAIN rr_moved |->
                          IF k \in changed
                            THEN k \in alive /\ (rr_moved[k] \/ rr_log[k] # <<>>)
                            ELSE rr_moved[k]]
  /\ hc' = [hc EXCEPT !.pc = "sleep", !.done = TRUE]
  /\ UNCHANGED <<gw_kind, WORKER_INDEX, sel>>
  /\ UNCHANGED notGw

\* health_check_workers (comp): all probes done; the unhealthy urls are
\* removed from the pool under the lock.
HcEvictComp ==
  /\ gw_kind = "comp"
  /\ hc.pc = "probe"
  /\ hc.left = {}
  /\ LET kept == RemoveUnhealthy(WORKER_POOL, hc.unhealthy)
         changed == kept # WORKER_POOL
     IN /\ WORKER_POOL' = kept
        /\ rr_log' = [rr_log EXCEPT ![Flat] = IF changed THEN <<>> ELSE @]
        /\ rr_moved' = [rr_moved EXCEPT ![Flat] =
                          IF changed THEN @ \/ rr_log[Flat] # <<>> ELSE @]
  /\ hc' = [hc EXCEPT !.pc = "sleep", !.done = TRUE]
  /\ UNCHANGED <<gw_kind, MODEL_INDICES, WORKER_INDEX, sel>>
  /\ UNCHANGED notGw

\* forward_request_to_worker: get_next_worker_for_model(model_name)
ForwardLlm(model) ==
  /\ gw_kind = "llm"
  /\ IF model \notin DOMAIN WORKER_POOL \/ WORKER_POOL[model] = <<>>
       THEN /\ sel' = [NoSel EXCEPT !.status = 404, !.pool = model]
            /\ UNCHANGED <<MODEL_INDICES, rr_log>>
       ELSE LET workers == WORKER_POOL[model]
                cursor == IF model \in DOMAIN MODEL_INDICES
                            THEN MODEL_INDICES[model] ELSE 0
                idx == CurrentIndex(cursor, Len(workers))
            IN IF idx >= Len(workers)
                 THEN \* workers[current_index] raises IndexError
                      /\ sel' = [status |-> 500, pool |-> model, cursor |-> cursor,
                                 idx |-> idx, url |-> "-", workers |-> workers,
                                 next |-> cursor]
                      /\ UNCHANGED <<MODEL_INDICES, rr_log>>
                 ELSE /\ sel' = [status |-> 200, pool |-> model, cursor |-> cursor,
                                 idx |-> idx, url |-> workers[idx + 1].url,
                                 workers |-> workers,
                                 next |-> NextIndex(idx, Len(workers))]
                      /\ MODEL_INDICES' =
                           [m \in DOMAIN MODEL_INDICES \cup {model} |->
                              IF m = model THEN NextIndex(idx, Len(workers))
                              ELSE MODEL_INDICES[m]]
                      /\ rr_log' = [rr_log EXCEPT ![model] =
                                      Logged(@, workers[idx + 1].url)]
  /\ UNCHANGED <<gw_kind, WORKER_POOL, WORKER_INDEX, hc, rr_moved>>
  /\ UNCHANGED notGw

\* forward_request: get_next_worker()
ForwardComp ==
  /\ gw_kind = "comp"
  /\ IF WORKER_POOL = <<>>
       THEN /\ sel' = [NoSel EXCEPT !.status = 503]
            /\ UNCHANGED <<WORKER_INDEX, rr_log>>
       ELSE LET n == Len(WORKER_POOL)
                idx == CurrentIndex(WORKER_INDEX, n)
            IN IF idx >= n
                 THEN \* WORKER_POOL[WORKER_INDEX] raises IndexError
                      /\ sel' = [status |-> 500, pool |-> Flat,
                                 cursor |-> WORKER_INDEX, idx |-> idx, url |-> "-",
                                 workers |-> WORKER_POOL, next |-> WORKER_INDEX]
                      /\ UNCHANGED <<WORKER_INDEX, rr_log>>
                 ELSE /\ sel' = [status |-> 200, pool |-> Flat,
                                 cursor |-> WORKER_INDEX, idx |-> idx,
                                 url |-> WORKER_POOL[idx + 1],
                                 workers |-> WORKER_POOL,
                                 next |-> NextIndex(idx, n)]
                      /\ WORKER_INDEX' = NextIndex(idx, n)
                      /\ rr_log' = [rr_log EXCEPT ![Flat] =
                                      Logged(@, WORKER_POOL[idx + 1])]
  /\ UNCHANGED <<gw_kind, WORKER_POOL, MODEL_INDICES, hc, rr_moved>>
  /\ UNCHANGED notGw

GwNext ==
  \/ \E u \in Urls, m \in Models : RegisterLlm(u, m)
  \/ \E u \in Urls : RegisterComp(u)
  \/ HcSnapshot
  \/ \E u \in Urls, ok \in BOOLEAN : HcProbe(u, ok)
  \/ HcEvictLlm
  \/ HcEvictComp
  \/ \E m \in Models : ForwardLlm(m)
  \/ ForwardComp

\* The LLM gateway receiving registrations, well formed or not, and requests
RegNext ==
  \/ \E u \in Urls, m \in Models : RegisterLlm(u, m)
  \/ \E data \in RegisterBodies : RegisterLlmRefused(data)
  \/ \E m \in Models : ForwardLlm(m)

----------------------------------------------------------------------------
\* The searches: lightweight_inference with its lightweight_inference_single
\* passes (lw), mediumweight_inference with its mediumweight_inference_single
\* passes (mw)

NumPasses == 2        \* num_of_passes
NumRev == 2           \* num_of_revision
MaxFaults == 1        \* what goes wrong in one search: calls that raise or give
                      \* an unusable response, and cancellations of the
                      \* orchestrator task from outside
MaxSubs == 1          \* subproblem searches created by the passes of one search
MaxSubTokens == 3     \* a subproblem search receives responses while its
                      \* total_tokens is below this

PassIds == 1..NumPasses

\* The usage dict an inference response carries
Usages == {[prompt_tokens |-> 1, completion_tokens |-> 2, total_tokens |-> 3]}

NoUsage == [prompt_tokens |-> 0, completion_tokens |-> 0, total_tokens |-> 0]

\* What an awaited inference call gives the pass: a response that the output
\* handler accepts, a response with empty content, a response whose
\* process_output raises, or an exception.
InfOutcomes == {"ok", "ok_empty", "ok_unparsable", "error"}

\* What an awaited compile call gives the pass.
CompOutcomes == {"complete", "incomplete", "error"}

\* accumulate_usage(total_usage, new_usage)
AccumulateUsage(total, new) ==
  [prompt_tokens |-> total.prompt_tokens + new.prompt_tokens,
   completion_tokens |-> total.completion_tokens + new.completion_tokens,
   total_tokens |-> total.total_tokens + new.total_tokens]

\* A record a pass returns: the pass, the "complete" of its compilation
\* result, the compilation that produced that result (0 the initial one, r
\* the one of revision round r, -1 none: a failure record), and its code
\* (0 the code of the initial attempt, r that of revision round r, NoCode
\* the empty string).
NoCode == -1
NoRec == [by |-> 0, complete |-> FALSE, verdict |-> -1]
Rec(p, complete, verdict, code) ==
  [by |-> p, complete |-> complete, verdict |-> verdict, code |-> code]

\* lightweight_inference: the record built when no pass produced one
SyntheticRec == [by |-> 0, complete |-> FALSE, verdict |-> -1]

\* A pass: where it is; num_of_revision_left; revision_round; the attempt
\* whose compilation gave compilation_result (last); lean_code as
\* compilable_code and last_code, each the attempt that wrote it; the
\* counts of its calls; how it ended and what it returned.
NewPass == [pc |-> "new", left |-> NumRev, round |-> 0, last |-> 0, nInf |-> 0,
            nComp |-> 0, cancel |-> FALSE, end |-> "-", rec |-> NoRec,
            fixed |-> {}, nFinal |-> 0, correct_lemmas |-> {},
            compilable_code |-> NoCode, last_code |-> NoCode,
            compiled |-> {}]   \* ghost (mw): the codes the pass had compiled

\* The pass task ends: it returned rec, was cancelled, or raised.
End(ps, how, rec) ==
  [ps EXCEPT !.pc = "end", !.end = how, !.rec = rec, !.round = 0, !.last = 0,
              !.compilable_code = NoCode, !.last_code = NoCode]

\* Mutant: the revision loop runs over range(num_of_revision), whatever the
\* initial step has used up.
EntersRoundFull(left, r) == r < NumRev

\* lightweight_inference_single: "for revision_round in
\* range(num_of_revision_left)"
EntersRound(left, r) == r < left

\* Mutant: the code kept for the next round and the final return is the one
\* kept before.
KeptCodeStale(ps) == IF ps.last_code = NoCode THEN ps.compilable_code ELSE ps.last_code

\* lightweight_inference_single: "last_code = compilable_code" after a
\* compilation whose result was taken
KeptCode(ps) == ps.compilable_code

\* lightweight_inference_single: the top of revision round r.  Past the
\* budget the pass returns the last code with the last compilation result;
\* otherwise RevisionHandler.format_input runs (fmt: it does not raise) and
\* the revision request is issued.
EnterRound(p, ps, r, fmt) ==
  IF ~EntersRound(ps.left, r)
    THEN End(ps, "returned", Rec(p, FALSE, ps.last, ps.last_code))
  ELSE IF ~fmt THEN End(ps, "raised", NoRec)
  ELSE [ps EXCEPT !.pc = "rev_inf", !.round = r, !.nInf = @ + 1]

\* Mutant: an initial inference that raised costs no revision.
AfterRaiseFree(left) == left

\* lightweight_inference_single, "except Exception" of the initial
\* inference: "num_of_revision_left -= 1"
AfterRaise(left) == left - 1

\* The passes run under lightweight_inference ("lw"), or one pass is
\* followed on its own to the end of lightweight_inference_single ("single").
LwKinds == {"lw", "single"}

\* How much may go wrong: in one search MaxFaults; for a pass followed on
\* its own as many calls as it has inference requests, so that it can fail
\* every one of them.
FaultBudget == IF search_kind = "single" THEN NumRev + 1 ELSE MaxFaults

\* A call comes back; bad: it raised or its response cannot be used.
FaultStep(bad) ==
  /\ bad => faults + orch.cancels < FaultBudget
  /\ faults' = IF bad THEN faults + 1 ELSE faults

\* The pass p becomes ps; a task that ends is handed to as_completed, whose
\* queue done_q holds the finished tasks in the order they finished (the
\* orchestrator has taken the first orch.taken of them).
PassBecomes(p, ps) ==
  /\ pass' = [pass EXCEPT ![p] = ps]
  /\ done_q' = IF ps.pc = "end" THEN Append(done_q, p) ELSE done_q

\* The response carried a usage dict that the pass accumulated.
Received(out) == out \in {"ok", "ok_empty", "ok_unparsable"}

\* Mutant: the usage is accumulated after process_output has accepted the
\* response.
AccumulatedIfProcessed(out) == out = "ok"

\* lightweight_inference_single: accumulate_usage(shared_token_usage, usage)
\* runs right after the response is extracted, before process_output.
Accumulated(out) == Received(out)

UsageStep(out, u) ==
  /\ combined_token_usage' =
       IF Accumulated(out) THEN AccumulateUsage(combined_token_usage, u)
       ELSE combined_token_usage
  /\ usage_seen' = IF Received(out) THEN AccumulateUsage(usage_seen, u)
                   ELSE usage_seen

\* The pass task starts running: the initial inference request is issued.
LwStart(p) ==
  /\ search_kind \in LwKinds
  /\ pass[p].pc = "new"
  /\ ~pass[p].cancel
  /\ PassBecomes(p, [pass[p] EXCEPT !.pc = "init_inf", !.nInf = 1])
  /\ UNCHANGED <<search_kind, sub, orch, combined_token_usage, usage_seen, faults>>
  /\ UNCHANGED notSearch

\* lightweight_inference_single: the awaited initial inference comes back.
\* An exception, raised by the call or by process_output, costs one revision
\* and the request is issued again, until none is left.
LwInitInf(p, out, u) ==
  /\ search_kind \in LwKinds
  /\ pass[p].pc = "init_inf"
  /\ ~pass[p].cancel
  /\ out # "ok_empty"
  /\ UsageStep(out, u)
  /\ LET ps == pass[p]
     IN PassBecomes(p,
          IF out = "ok" THEN [ps EXCEPT !.pc = "init_comp", !.nComp = @ + 1,
                                        !.compilable_code = 0]
          ELSE IF AfterRaise(ps.left) >= 0
            THEN [ps EXCEPT !.left = AfterRaise(@), !.nInf = @ + 1]
          ELSE End([ps EXCEPT !.left = AfterRaise(@)], "returned",
                   Rec(p, FALSE, -1, NoCode)))
  /\ FaultStep(out # "ok")
  /\ UNCHANGED <<search_kind, sub, orch>>
  /\ UNCHANGED notSearch

\* lightweight_inference_single: the awaited initial compilation comes back.
LwInitComp(p, out, fmt) ==
  /\ search_kind \in LwKinds
  /\ pass[p].pc = "init_comp"
  /\ ~pass[p].cancel
  /\ LET ps == [pass[p] EXCEPT !.last = 0]
     IN PassBecomes(p,
          IF out = "complete"
            THEN End(ps, "returned", Rec(p, TRUE, 0, ps.compilable_code))
          ELSE EnterRound(p, [ps EXCEPT !.last_code = KeptCode(ps)], 0, fmt))
  /\ out = "complete" => fmt
  /\ FaultStep(out = "error" \/ ~fmt)
  /\ UNCHANGED <<search_kind, sub, orch, combined_token_usage, usage_seen>>
  /\ UNCHANGED notSearch

\* lightweight_inference_single: the awaited revision inference comes back.
LwRevInf(p, out, u, fmt) ==
  /\ search_kind \in LwKinds
  /\ pass[p].pc = "rev_inf"
  /\ ~pass[p].cancel
  /\ UsageStep(out, u)
  /\ LET ps == pass[p]
     IN PassBecomes(p,
          IF out = "ok" THEN [ps EXCEPT !.pc = "rev_comp", !.nComp = @ + 1,
                                        !.compilable_code = ps.round + 1]
          ELSE IF out = "ok_empty" THEN EnterRound(p, ps, ps.round + 1, fmt)
          ELSE IF ps.round # NumRev - 1 THEN EnterRound(p, ps, ps.round + 1, fmt)
          ELSE End(ps, "returned", Rec(p, FALSE, -1, NoCode)))
  /\ out = "ok" => fmt
  /\ FaultStep(out # "ok" \/ ~fmt)
  /\ UNCHANGED <<search_kind, sub, orch>>
  /\ UNCHANGED notSearch

\* lightweight_inference_single: the awaited revision compilation comes back.
LwRevComp(p, out, fmt) ==
  /\ search_kind \in LwKinds
  /\ pass[p].pc = "rev_comp"
  /\ ~pass[p].cancel
  /\ LET ps == pass[p]
         r == ps.round
     IN PassBecomes(p,
          IF out = "complete"
            THEN End(ps, "returned", Rec(p, TRUE, r + 1, ps.compilable_code))
          ELSE IF out = "error" /\ r # NumRev - 1 THEN EnterRound(p, ps, r + 1, fmt)
          ELSE EnterRound(p, [ps EXCEPT !.last = r + 1, !.last_code = KeptCode(ps)],
                          r + 1, fmt))
  /\ out = "complete" => fmt
  /\ FaultStep(out = "error" \/ ~fmt)
  /\ UNCHANGED <<search_kind, sub, orch, combined_token_usage, usage_seen>>
  /\ UNCHANGED notSearch

\* A cancelled lightweight pass gets CancelledError at the await it is
\* suspended on (or before it first runs) and re-raises it.
LwCancelled(p) ==
  /\ search_kind \in LwKinds
  /\ pass[p].pc # "end"
  /\ pass[p].cancel
  /\ PassBecomes(p, End(pass[p], "cancelled", NoRec))
  /\ UNCHANGED <<search_kind, sub, orch, combined_token_usage, usage_seen, faults>>
  /\ UNCHANGED notSearch

\* The orchestrator: lightweight_inference (lightweightsearch.py 278-324);
\* mediumweight_inference runs the same loop (mediumweightsearch.py 348-415).

NewOrch == [pc |-> "loop", iter |-> 0, taken |-> 0, completed_results |-> <<>>,
            success |-> FALSE, return_dict |-> NoRec, cancels |-> 0,
            ret |-> [returned |-> FALSE, rec |-> NoRec, token_usage |-> NoUsage,
                     lemma_collection |-> <<>>]]

\* Mutant: no sibling is cancelled on success.
CancelsNone(ps) == {}

\* "for t in task_list: if not t.done(): t.cancel()"
CancelsNotDone(ps) == {q \in PassIds : ps[q].pc # "end"}

\* t.cancel() marks the task; a mediumweight pass suspended on the gather of
\* its subproblem searches has the gather cancelled with it.
CancelPasses(ps, who) ==
  [q \in PassIds |->
     IF q \in who
       THEN [ps[q] EXCEPT !.cancel = TRUE,
                          !.pc = IF @ = "m_fix" THEN "m_fix_cancelled" ELSE @]
       ELSE ps[q]]

\* lightweight_inference cancelled inside its as_completed loop catches the
\* CancelledError ("except asyncio.CancelledError" of the loop) and goes on.
SwallowsCancel(phase) == phase = "loop"

\* A running lightweight_inference task is cancelled.
SubCancelReq(c) ==
  IF c.st # "running" THEN c
  ELSE IF SwallowsCancel(c.phase) THEN [c EXCEPT !.swallowed = TRUE]
  ELSE [c EXCEPT !.phase = "cancelling"]

\* The cancelled gather of a pass cancels its subproblem searches.
CancelSubs(sb, ps, who) ==
  [q \in PassIds |->
     IF q \in who /\ ps[q].pc = "m_fix"
       THEN [l \in DOMAIN sb[q] |-> SubCancelReq(sb[q][l])]
       ELSE sb[q]]

\* The for loop over as_completed has one iteration per task.
AfterIteration(o) ==
  [o EXCEPT !.iter = @ + 1,
            !.pc = IF o.iter + 1 = NumPasses THEN "gather" ELSE "loop"]

\* "result = await future" gets the next finished pass.  A returned record
\* is appended to completed_results; a complete one ends the loop after the
\* unfinished tasks are cancelled.  A pass that was cancelled or raised makes
\* the await raise, which the loop catches and logs.
OrchObserve ==
  /\ orch.pc = "loop"
  /\ orch.taken < Len(done_q)
  /\ LET p == done_q[orch.taken + 1]
         ps == pass[p]
         ot == [orch EXCEPT !.taken = @ + 1]
     IN /\ UNCHANGED done_q
        /\ IF ps.end = "returned"
             THEN LET o == [ot EXCEPT !.completed_results = Append(@, ps.rec)]
                  IN IF ps.rec.complete
                       THEN /\ orch' = [o EXCEPT !.return_dict = ps.rec,
                                                 !.success = TRUE,
                                                 !.pc = "gather"]
                            /\ pass' = CancelPasses(pass, CancelsNotDone(pass))
                            /\ sub' = CancelSubs(sub, pass, CancelsNotDone(pass))
                       ELSE /\ orch' = AfterIteration(o)
                            /\ UNCHANGED <<pass, sub>>
             ELSE /\ orch' = AfterIteration(ot)
                  /\ UNCHANGED <<pass, sub>>
  /\ UNCHANGED <<search_kind, combined_token_usage, usage_seen, faults>>
  /\ UNCHANGED notSearch

\* The orchestrator task is cancelled from outside.  In the loop the
\* CancelledError comes out of "await future" and is caught by the loop's
\* "except asyncio.CancelledError", which logs and goes on to the next
\* iteration; no pass is touched.  In the final gather the cancellation is
\* passed on to the passes and reaches the orchestrator when all have ended.
OrchCancel ==
  /\ orch.pc \in {"loop", "gather"}
  /\ faults + orch.cancels < MaxFaults
  /\ IF orch.pc = "loop"
       THEN /\ orch' = [AfterIteration(orch) EXCEPT !.cancels = @ + 1]
            /\ UNCHANGED <<pass, sub>>
       ELSE /\ orch' = [orch EXCEPT !.pc = "gather_cancelled", !.cancels = @ + 1]
            /\ pass' = CancelPasses(pass, CancelsNotDone(pass))
            /\ sub' = CancelSubs(sub, pass, CancelsNotDone(pass))
  /\ UNCHANGED <<search_kind, done_q, combined_token_usage, usage_seen, faults>>
  /\ UNCHANGED notSearch

\* "await asyncio.gather(*task_list, return_exceptions=True)" returns when
\* every task is done.
GatherReturns(ps) == \A q \in PassIds : ps[q].pc = "end"

\* The record the orchestrator returns after the gather
ReturnDict(o) ==
  IF o.success THEN o.return_dict
  ELSE IF o.completed_results # <<>> THEN o.completed_results[1]
  ELSE SyntheticRec

\* mediumweight_inference: all_passes_correct_lemmas, one entry per result
\* taken in the as_completed loop, with the correct_lemmas that result
\* carries (the list the pass had when it returned).
LemmaCollection(o, ps) ==
  IF search_kind # "mw" THEN <<>>
  ELSE [i \in 1..Len(o.completed_results) |->
          [pass_id |-> o.completed_results[i].by,
           lemmas |-> ps[o.completed_results[i].by].correct_lemmas]]

\* The gather is over: the record is chosen, token_usage and (mediumweight)
\* the lemma_collection summary are attached, and the orchestrator returns.
OrchReturn ==
  /\ orch.pc = "gather"
  /\ GatherReturns(pass)
  /\ orch' = [orch EXCEPT !.pc = "returned",
                          !.ret = [returned |-> TRUE, rec |-> ReturnDict(orch),
                                   token_usage |-> combined_token_usage,
                                   lemma_collection |-> LemmaCollection(orch, pass)]]
  /\ UNCHANGED <<search_kind, pass, sub, done_q, combined_token_usage, usage_seen, faults>>
  /\ UNCHANGED notSearch

\* The cancelled gather is over: CancelledError leaves the orchestrator.
OrchCancelled ==
  /\ orch.pc = "gather_cancelled"
  /\ GatherReturns(pass)
  /\ orch' = [orch EXCEPT !.pc = "cancelled"]
  /\ UNCHANGED <<search_kind, pass, sub, done_q, combined_token_usage, usage_seen, faults>>
  /\ UNCHANGED notSearch

\* mediumweight_inference_single and the lightweight_inference tasks it
\* creates for the lemmas that failed verification

Lemmas == {"a", "b"}

\* A lightweight_inference task created for a lemma: whether it runs or how
\* it ended, where it is suspended, whether it has swallowed a cancellation,
\* and whether a pass of it has issued a request after that.
\* token_usage is the search's own combined_token_usage, which the record it
\* returns carries.
NoSub == [st |-> "none", phase |-> "-", swallowed |-> FALSE, after |-> FALSE,
          token_usage |-> NoUsage]
NewSub == [st |-> "running", phase |-> "loop", swallowed |-> FALSE, after |-> FALSE,
           token_usage |-> NoUsage]

SubEndedAs(out) == [st |-> out, phase |-> "-", swallowed |-> FALSE, after |-> FALSE,
                    token_usage |-> NoUsage]

\* A record a mediumweight pass returns: as Rec (verdict 0 the initial
\* compilation, 1 the final one), with the code it carries.
MwRec(p, complete, verdict, code) ==
  [by |-> p, complete |-> complete, verdict |-> verdict, code |-> code]

\* analysis.code after fix_lemma has been applied for the lemmas in fixed;
\* with none it is initial_code
PatchedCode(fixed) == <<"patched", fixed>>

\* What the compilation scheduler was given and whether its result was
\* complete (a call that raised gives the pass a result that is not)
Compiled(code, out) == [code |-> code, complete |-> out = "complete"]

\* Mutant: a pass that aborts takes the lemmas it could not fix for fixed
\* and reports complete.
AbortVerdictTrusting(fixed) == TRUE

\* "compilation_result": {"complete": False, ...} of the record a pass
\* returns when it aborts; fixed are the lemmas fix_lemma was applied to
AbortVerdict(fixed) == FALSE

SubEnded(c) == c.st \in {"none", "complete", "incomplete", "raised", "cancelled"}

\* Mutant: a search that found no complete proof does not fail the pass.
KeepsSuccessLax(st) == st \in {"complete", "cancelled", "incomplete"}

\* The loop over task_results leaves all_successful as it is for a complete
\* result and for a CancelledError, and clears it for any other exception
\* and for a result that is not complete.
KeepsSuccess(st) == st \in {"complete", "cancelled"}

\* The pass task starts running: the initial inference request is issued.
MwStart(p) ==
  /\ search_kind = "mw"
  /\ pass[p].pc = "new"
  /\ ~pass[p].cancel
  /\ PassBecomes(p, [pass[p] EXCEPT !.pc = "m_init_inf", !.nInf = 1])
  /\ UNCHANGED <<search_kind, sub, orch, combined_token_usage, usage_seen, faults>>
  /\ UNCHANGED notSearch

\* Step 1: the awaited initial inference comes back; any exception ends the
\* pass with a failure record.
MwInitInf(p, out, u) ==
  /\ search_kind = "mw"
  /\ pass[p].pc = "m_init_inf"
  /\ ~pass[p].cancel
  /\ out # "ok_empty"
  /\ UsageStep(out, u)
  /\ PassBecomes(p,
       IF out = "ok" THEN [pass[p] EXCEPT !.pc = "m_init_comp", !.nComp = @ + 1]
       ELSE End(pass[p], "returned", MwRec(p, FALSE, -1, "")))
  /\ FaultStep(out # "ok")
  /\ UNCHANGED <<search_kind, sub, orch>>
  /\ UNCHANGED notSearch

\* Step 2: the awaited initial compilation comes back (hasErrors: the result
\* lists errors).  Complete, or not complete without errors, ends the pass.
MwInitComp(p, out, hasErrors) ==
  /\ search_kind = "mw"
  /\ pass[p].pc = "m_init_comp"
  /\ ~pass[p].cancel
  /\ LET ps == [pass[p] EXCEPT !.compiled = @ \cup {Compiled(PatchedCode({}), out)}]
     IN PassBecomes(p,
          IF out = "complete"
            THEN End(ps, "returned", MwRec(p, TRUE, 0, PatchedCode({})))
          ELSE IF out = "error" \/ ~hasErrors
            THEN End(ps, "returned", MwRec(p, FALSE, 0, PatchedCode({})))
          ELSE [ps EXCEPT !.pc = "m_verify"])
  /\ FaultStep(out = "error")
  /\ UNCHANGED <<search_kind, sub, orch, combined_token_usage, usage_seen>>
  /\ UNCHANGED notSearch

\* Steps 3 and 4: verify_all_lemmas comes back with errs the lemmas that
\* failed, and the fully correct ones are appended to correct_lemmas;
\* without any failed lemma the pass returns, otherwise one
\* lightweight_inference task is created per lemma and the pass awaits their
\* gather.
MwVerify(p, errs) ==
  /\ search_kind = "mw"
  /\ pass[p].pc = "m_verify"
  /\ ~pass[p].cancel
  /\ Cardinality({pl \in PassIds \X Lemmas : sub[pl[1]][pl[2]].st # "none"})
       + Cardinality(errs) <= MaxSubs
  /\ IF errs = {}
       THEN /\ PassBecomes(p, End([pass[p] EXCEPT !.correct_lemmas = Lemmas],
                                  "returned", MwRec(p, FALSE, 0, PatchedCode({}))))
            /\ UNCHANGED sub
       ELSE /\ PassBecomes(p, [pass[p] EXCEPT !.pc = "m_fix",
                                              !.correct_lemmas = Lemmas \ errs])
            /\ sub' = [sub EXCEPT ![p] =
                         [l \in Lemmas |-> IF l \in errs THEN NewSub ELSE NoSub]]
  /\ UNCHANGED <<search_kind, orch, combined_token_usage, usage_seen, faults>>
  /\ UNCHANGED notSearch

\* A subproblem search leaves its as_completed loop for its final gather.
SubToGather(p, l) ==
  /\ search_kind = "mw"
  /\ sub[p][l].st = "running"
  /\ sub[p][l].phase = "loop"
  /\ sub' = [sub EXCEPT ![p][l].phase = "gather"]
  /\ UNCHANGED <<search_kind, pass, orch, done_q, combined_token_usage, usage_seen, faults>>
  /\ UNCHANGED notSearch

\* A pass of a subproblem search whose cancellation was swallowed issues its
\* next inference or compilation request.
SubIssues(p, l) ==
  /\ search_kind = "mw"
  /\ sub[p][l].st = "running"
  /\ sub[p][l].phase = "loop"
  /\ sub[p][l].swallowed
  /\ ~sub[p][l].after
  /\ sub' = [sub EXCEPT ![p][l].after = TRUE]
  /\ UNCHANGED <<search_kind, pass, orch, done_q, combined_token_usage, usage_seen, faults>>
  /\ UNCHANGED notSearch

\* A pass of a subproblem search receives an inference response, whose usage
\* goes into the search's own combined_token_usage.
SubReceives(p, l, u) ==
  /\ search_kind = "mw"
  /\ sub[p][l].st = "running"
  /\ sub[p][l].phase = "loop"
  /\ sub[p][l].token_usage.total_tokens < MaxSubTokens
  /\ sub' = [sub EXCEPT ![p][l].token_usage = AccumulateUsage(@, u)]
  /\ usage_seen' = AccumulateUsage(usage_seen, u)
  /\ UNCHANGED <<search_kind, pass, orch, done_q, combined_token_usage, faults>>
  /\ UNCHANGED notSearch

\* A subproblem search ends: it returns a record (complete or not), raises,
\* or, cancelled in its final gather, ends cancelled.
SubFinish(p, l, out) ==
  /\ search_kind = "mw"
  /\ sub[p][l].st = "running"
  /\ \/ sub[p][l].phase = "gather" /\ out \in {"complete", "incomplete", "raised"}
     \/ sub[p][l].phase = "cancelling" /\ out = "cancelled"
  /\ sub' = [sub EXCEPT ![p][l] =
               [SubEndedAs(out) EXCEPT !.token_usage = sub[p][l].token_usage]]
  /\ FaultStep(out = "raised")
  /\ UNCHANGED <<search_kind, pass, orch, done_q, combined_token_usage, usage_seen>>
  /\ UNCHANGED notSearch

\* "isinstance(result, dict) and 'token_usage' in result": the search
\* returned a record.
ReturnedDict(st) == st \in {"complete", "incomplete"}

\* accumulate_usage(shared_token_usage, result['token_usage']) over the
\* results of the searches ls of pass p
RECURSIVE AccumulateSubUsage(_, _, _)
AccumulateSubUsage(total, p, ls) ==
  IF ls = {} THEN total
  ELSE LET l == CHOOSE x \in ls : TRUE
       IN AccumulateSubUsage(AccumulateUsage(total, sub[p][l].token_usage),
                             p, ls \ {l})

\* Step 4: the gather over the subproblem searches returns and the results
\* are applied in order: their token usage is accumulated, and fix_lemma is
\* called for each complete one (the ProofAnalysis built from the fixed code
\* is not verified, so its get_fully_correct_lemmas is empty).  Unless all were
\* successful the pass returns the patched code without recompiling it;
\* otherwise the final compilation is requested.
MwFixDone(p) ==
  /\ search_kind = "mw"
  /\ pass[p].pc = "m_fix"
  /\ ~pass[p].cancel
  /\ \A l \in Lemmas : SubEnded(sub[p][l])
  /\ LET tasks == {l \in Lemmas : sub[p][l].st # "none"}
         all_successful == \A l \in tasks : KeepsSuccess(sub[p][l].st)
         ps == [pass[p] EXCEPT !.fixed = {l \in tasks : sub[p][l].st = "complete"}]
     IN PassBecomes(p,
          IF ~all_successful
            THEN End(ps, "returned",
                     MwRec(p, AbortVerdict(ps.fixed), -1, PatchedCode(ps.fixed)))
          ELSE [ps EXCEPT !.pc = "m_final", !.nComp = @ + 1, !.nFinal = @ + 1])
  /\ combined_token_usage' =
       AccumulateSubUsage(combined_token_usage, p,
                          {l \in Lemmas : ReturnedDict(sub[p][l].st)})
  /\ UNCHANGED <<search_kind, sub, orch, usage_seen, faults>>
  /\ UNCHANGED notSearch

\* Step 5: the awaited final compilation comes back.
MwFinal(p, out) ==
  /\ search_kind = "mw"
  /\ pass[p].pc = "m_final"
  /\ ~pass[p].cancel
  /\ LET final_code == PatchedCode(pass[p].fixed)
         ps == [pass[p] EXCEPT !.compiled = @ \cup {Compiled(final_code, out)}]
     IN PassBecomes(p, End(ps, "returned",
                           MwRec(p, out = "complete", 1, final_code)))
  /\ FaultStep(out = "error")
  /\ UNCHANGED <<search_kind, sub, orch, combined_token_usage, usage_seen>>
  /\ UNCHANGED notSearch

\* A cancelled mediumweight pass gets CancelledError at the await it is
\* suspended on and re-raises it; suspended on the gather of its subproblem
\* searches, it gets it when all of them have ended.
MwCancelled(p) ==
  /\ search_kind = "mw"
  /\ pass[p].pc # "end"
  /\ pass[p].cancel
  /\ pass[p].pc = "m_fix_cancelled" => \A l \in Lemmas : SubEnded(sub[p][l])
  /\ PassBecomes(p, End(pass[p], "cancelled", NoRec))
  /\ UNCHANGED <<search_kind, sub, orch, combined_token_usage, usage_seen, faults>>
  /\ UNCHANGED notSearch

SearchInitOf(kind) ==
  /\ search_kind = kind
  /\ pass = [p \in PassIds |-> NewPass]
  /\ sub = [p \in PassIds |-> [l \in Lemmas |-> NoSub]]
  /\ orch = NewOrch
  /\ done_q = <<>>
  /\ combined_token_usage = NoUsage
  /\ usage_seen = NoUsage
  /\ faults = 0

\* lightweight_inference over its passes
LwNext ==
  \/ \E p \in PassIds : LwStart(p)
  \/ \E p \in PassIds, out \in InfOutcomes, u \in Usages : LwInitInf(p, out, u)
  \/ \E p \in PassIds, out \in CompOutcomes, fmt \in BOOLEAN : LwInitComp(p, out, fmt)
  \/ \E p \in PassIds, out \in InfOutcomes, u \in Usages, fmt \in BOOLEAN :
       LwRevInf(p, out, u, fmt)
  \/ \E p \in PassIds, out \in CompOutcomes, fmt \in BOOLEAN : LwRevComp(p, out, fmt)
  \/ \E p \in PassIds : LwCancelled(p)
  \/ OrchObserve
  \/ OrchCancel
  \/ OrchReturn
  \/ OrchCancelled

\* One call of lightweight_inference_single: the pass that is followed
ThePass == {1}

\* lightweight_inference_single, the pass from its first request to its return
PassNext ==
  \/ \E p \in ThePass : LwStart(p)
  \/ \E p \in ThePass, out \in InfOutcomes, u \in Usages : LwInitInf(p, out, u)
  \/ \E p \in ThePass, out \in CompOutcomes, fmt \in BOOLEAN : LwInitComp(p, out, fmt)
  \/ \E p \in ThePass, out \in InfOutcomes, u \in Usages, fmt \in BOOLEAN :
       LwRevInf(p, out, u, fmt)
  \/ \E p \in ThePass, out \in CompOutcomes, fmt \in BOOLEAN : LwRevComp(p, out, fmt)

\* mediumweight_inference over its passes and their subproblem searches
MwNext ==
  \/ \E p \in PassIds : MwStart(p)
  \/ \E p \in PassIds, out \in InfOutcomes, u \in Usages : MwInitInf(p, out, u)
  \/ \E p \in PassIds, out \in CompOutcomes, hasErrors \in BOOLEAN :
       MwInitComp(p, out, hasErrors)
  \/ \E p \in PassIds, errs \in SUBSET Lemmas : MwVerify(p, errs)
  \/ \E p \in PassIds, l \in Lemmas : SubToGather(p, l)
  \/ \E p \in PassIds, l \in Lemmas : SubIssues(p, l)
  \/ \E p \in PassIds, l \in Lemmas,
        out \in {"complete", "incomplete", "raised", "cancelled"} : SubFinish(p, l, out)
  \/ \E p \in PassIds : MwFixDone(p)
  \/ \E p \in PassIds, out \in CompOutcomes : MwFinal(p, out)
  \/ \E p \in PassIds : MwCancelled(p)
  \/ OrchObserve
  \/ OrchCancel
  \/ OrchReturn
  \/ OrchCancelled

\* lightweight_inference_single as a caller of the inference scheduler: the
\* priorities it submits its requests with

NumProblems == 2      \* searches running at once, problem_index 1..NumProblems
MaxRounds == 2        \* num_of_revision of these searches

LW_P_INITIAL == 16

ProblemIds == 1..NumProblems

\* The requests of a pass: -1 the initial generation, r >= 0 the revision of
\* round r.
Rounds == -1..(MaxRounds - 1)

\* "base_priority = problem_index * P_INITIAL"
BasePriority(problem_index) == problem_index * LW_P_INITIAL

\* Mutant: later rounds get larger priority numbers.
RevisionPriorityUp(base_priority, revision_round) ==
  base_priority + revision_round + 1

\* "priority=(base_priority-revision_round-1)"
RevisionPriority(base_priority, revision_round) ==
  base_priority - revision_round - 1

\* The priority a pass of problem i submits the request of round r with
LwPriority(i, r) ==
  IF r = -1 THEN BasePriority(i) ELSE RevisionPriority(BasePriority(i), r)

NoLabel == [problem |-> 0, round |-> -1, priority |-> 0, seen |-> FALSE]

\* One pass per problem, about to issue its initial request
CallerInit ==
  /\ asked = [t \in TaskIds |-> NoLabel]
  /\ ready = [i \in ProblemIds |-> [r \in Rounds |-> IF r = -1 THEN 1 ELSE 0]]

\* What the gateway does with a request of a pass: a reply, or a failure
\* that reaches the pass as an exception.
CallerOutcomes == {"ok", "HTTPStatusError"}

\* A pass of problem i calls inference_scheduler.inference(priority=...) for
\* its request of round r: InferenceSchedulerService.inference up to
\* "await future".
LwInference(i, r) ==
  /\ sched_kind = "inference"
  /\ submitted < MaxTasks
  /\ ready[i][r] > 0
  /\ ready' = [ready EXCEPT ![i][r] = @ - 1]
  /\ asked' = [asked EXCEPT ![submitted + 1] =
                 [problem |-> i, round |-> r, priority |-> LwPriority(i, r),
                  seen |-> FALSE]]
  /\ submitted' = submitted + 1
  /\ fut' = [fut EXCEPT ![submitted + 1] = PendingFuture]
  /\ queue' = Append(queue, [priority |-> LwPriority(i, r), count |-> task_counter,
                             id |-> submitted + 1])
  /\ task_counter' = task_counter + 1
  /\ UNCHANGED <<sched_kind, started, wk, inflight, raised, setCount>>
  /\ UNCHANGED notCaller

\* The stage a pass goes to after the request of round r: an initial
\* inference that raised is issued again, everything else leads to the next
\* round.
StageAfter(r, st) == IF r = -1 /\ st = "exception" THEN -1 ELSE r + 1

\* The pass that awaited task t gets its result or exception and goes on to
\* its next request, if it has one.
LwProceeds(t) ==
  /\ asked[t].problem # 0
  /\ ~asked[t].seen
  /\ fut[t].st \in {"result", "exception"}
  /\ asked' = [asked EXCEPT ![t].seen = TRUE]
  /\ LET n == StageAfter(asked[t].round, fut[t].st)
     IN ready' = IF n \in Rounds
                   THEN [ready EXCEPT ![asked[t].problem][n] = @ + 1]
                   ELSE ready
  /\ UNCHANGED schedVars
  /\ UNCHANGED notCaller

CallerNext ==
  \/ Start
  \/ \E i \in ProblemIds, r \in Rounds : LwInference(i, r)
  \/ \E w \in WorkerIds : WorkerGet(w)
  \/ \E w \in WorkerIds, o \in CallerOutcomes : WorkerDone(w, o)
  \/ \E t \in TaskIds : LwProceeds(t)

\* mediumweight_inference_single as a caller of the inference scheduler,
\* together with the lightweight passes of its subproblem searches.  A pass
\* of problem i asks for its initial full proof (stage MwInitial); when the
\* reply is there it compiles and analyses the proof and starts a
\* lightweight search for a failed lemma with problem_index=problem_index,
\* whose pass goes through the stages of Rounds.

MwInitial == -2
MwRounds == {MwInitial} \cup Rounds

\* "priority=problem_index" of the initial full proof generation
MwInitialPriority(problem_index) == problem_index

MwCallerInit ==
  /\ asked = [t \in TaskIds |-> NoLabel]
  /\ ready = [i \in ProblemIds |-> [r \in MwRounds |-> IF r = MwInitial THEN 1 ELSE 0]]

\* A mediumweight pass of problem i calls
\* inference_scheduler.inference(priority=problem_index) for its initial
\* full proof.
MwInference(i) ==
  /\ sched_kind = "inference"
  /\ submitted < MaxTasks
  /\ MwInitial \in DOMAIN ready[i]
  /\ ready[i][MwInitial] > 0
  /\ ready' = [ready EXCEPT ![i][MwInitial] = @ - 1]
  /\ asked' = [asked EXCEPT ![submitted + 1] =
                 [problem |-> i, round |-> MwInitial,
                  priority |-> MwInitialPriority(i), seen |-> FALSE]]
  /\ submitted' = submitted + 1
  /\ fut' = [fut EXCEPT ![submitted + 1] = PendingFuture]
  /\ queue' = Append(queue, [priority |-> MwInitialPriority(i),
                             count |-> task_counter, id |-> submitted + 1])
  /\ task_counter' = task_counter + 1
  /\ UNCHANGED <<sched_kind, started, wk, inflight, raised, setCount>>
  /\ UNCHANGED notCaller

\* The pass that awaited the initial full proof in task t gets it, finds a
\* failed lemma in it and starts the search for it, whose pass is then about
\* to issue its own initial request; a pass whose request raised, or whose
\* proof has no failed lemma, returns.
MwProceeds(t, failed_lemma) ==
  /\ asked[t].problem # 0
  /\ asked[t].round = MwInitial
  /\ ~asked[t].seen
  /\ fut[t].st \in {"result", "exception"}
  /\ asked' = [asked EXCEPT ![t].seen = TRUE]
  /\ ready' = IF fut[t].st = "result" /\ failed_lemma
                THEN [ready EXCEPT ![asked[t].problem][-1] = @ + 1]
                ELSE ready
  /\ UNCHANGED schedVars
  /\ UNCHANGED notCaller

MwCallerNext ==
  \/ Start
  \/ \E i \in ProblemIds : MwInference(i)
  \/ \E t \in TaskIds, failed_lemma \in BOOLEAN : MwProceeds(t, failed_lemma)
  \/ \E i \in ProblemIds, r \in Rounds : LwInference(i, r)
  \/ \E w \in WorkerIds : WorkerGet(w)
  \/ \E w \in WorkerIds, o \in CallerOutcomes : WorkerDone(w, o)
  \/ \E t \in TaskIds : asked[t].round # MwInitial /\ LwProceeds(t)

----------------------------------------------------------------------------
\* proofsearch/mediumweight/utils.py: ProofAnalysis
\*
\* The code of a pass is a sequence of declaration blocks.  A block is what
\* the analysis reads of it: the name and the keyword of its first line,
\* whether its text contains ":=", and the names its body mentions.  A name
\* is a dotted sequence of identifiers, and an identifier is a word followed
\* by the numeric suffixes "_k" appended to it, so that the "foo_1" a fix
\* writes and the "foo_1" _generate_unique_name makes are the same name, and
\* "foo" is a whole word of "A.foo" but not of "foo_1".

\* Bound: the helper declarations one fixed subproblem brings with it
MaxHelpers == 2

Ident(w, sfx) == [w |-> w, sfx |-> sfx]
Name1(w) == <<Ident(w, <<>>)>>
Name2(v, w) == <<Ident(v, <<>>), Ident(w, <<>>)>>

\* f"{base_name}_{counter}"
Suffixed(base_name, counter) ==
  [base_name EXCEPT ![Len(base_name)].sfx = Append(@, counter)]

\* _generate_unique_name: the name itself if it is free, else the name with
\* the least counter from 1 that makes it free
GenerateUniqueName(base_name, existing_names) ==
  IF base_name \notin existing_names THEN base_name
  ELSE LET counter ==
             CHOOSE k \in 1..(Cardinality(existing_names) + 1) :
               /\ Suffixed(base_name, k) \notin existing_names
               /\ \A j \in 1..(k - 1) : Suffixed(base_name, j) \in existing_names
       IN Suffixed(base_name, counter)

\* re.sub(r'\b' + re.escape(old_name) + r'\b', new_name, ...) on one name:
\* every occurrence of old_name that starts and ends at an identifier
\* boundary is replaced, scanning from the left.
RECURSIVE RenameFrom(_, _, _, _)
RenameFrom(n, i, old_name, new_name) ==
  IF i > Len(n) THEN <<>>
  ELSE IF /\ i + Len(old_name) - 1 <= Len(n)
          /\ SubSeq(n, i, i + Len(old_name) - 1) = old_name
         THEN new_name \o RenameFrom(n, i + Len(old_name), old_name, new_name)
         ELSE <<n[i]>> \o RenameFrom(n, i + 1, old_name, new_name)

\* _rename_declaration_in_text: the declaration line and every reference
RenameDeclarationInText(text, old_name, new_name) ==
  [text EXCEPT
     !.name = RenameFrom(@, 1, old_name, new_name),
     !.refs = [k \in DOMAIN @ |-> RenameFrom(@[k], 1, old_name, new_name)]]

\* "for old_name, new_name in name_mappings.items(): text = rename(text, ...)":
\* the mappings are applied one after the other, in insertion order
RECURSIVE ApplyMappings(_, _)
ApplyMappings(text, name_mappings) ==
  IF name_mappings = <<>> THEN text
  ELSE ApplyMappings(
         RenameDeclarationInText(text, name_mappings[1][1], name_mappings[1][2]),
         Tail(name_mappings))

Block(name, type, has_proof, refs) ==
  [name |-> name, type |-> type, has_proof |-> has_proof, refs |-> refs]

\* _extract_declarations, first pass: a later declaration of a name takes the
\* place of an earlier one in the dict, so the starts that remain are the
\* last block of each name
IsStart(lines, i) == \A j \in (i + 1)..Len(lines) : lines[j].name # lines[i].name

\* second pass: a declaration ends where the next remaining start is
EndLine(lines, i) ==
  LET later == {j \in (i + 1)..Len(lines) : IsStart(lines, j)}
  IN IF later = {} THEN Len(lines)
     ELSE (CHOOSE j \in later : \A k \in later : j <= k) - 1

ExtractDeclarations(lines) ==
  [n \in {lines[i].name : i \in 1..Len(lines)} |->
     LET i == CHOOSE i \in 1..Len(lines) : lines[i].name = n /\ IsStart(lines, i)
     IN [type |-> lines[i].type,
         start_line |-> i,
         end_line |-> EndLine(lines, i),
         has_proof |-> /\ lines[i].type \in {"lemma", "theorem"}
                       /\ \E k \in i..EndLine(lines, i) : lines[k].has_proof,
         was_fixed |-> FALSE,
         is_verified |-> FALSE]]

\* d[k] = v of a Python dict
DictSet(d, k, v) == [x \in DOMAIN d \cup {k} |-> IF x = k THEN v ELSE d[x]]

\* The codes a pass starts from: a lemma, a lemma that uses it, and a
\* theorem in a namespace whose last identifier is the name of the first
\* lemma; the first lemma is stated with or without a proof.
FOO == Name1("foo")
LEM == Name1("L")
AFOO == Name2("A", "foo")

InitialCode(foo_proved) ==
  << Block(FOO, "lemma", foo_proved, <<>>),
     Block(LEM, "lemma", TRUE, <<FOO>>),
     Block(AFOO, "theorem", TRUE, <<FOO, LEM>>) >>

\* __init__
NewAnalysis(lines) ==
  [lines |-> lines,
   declarations |-> ExtractDeclarations(lines),
   lemma_compilation_results |-> <<>>,
   error_declarations |-> {},
   fix_history |-> <<>>,
   verification_done |-> FALSE,
   error_lemmas |-> {},   \* the caller's list of lemmas it has yet to fix
   error_list |-> <<>>,   \* what get_error_lemmas_sorted gave the caller
   launched |-> <<>>,     \* the subproblems of the searches the caller made
   fixed |-> {},          \* ghost: the lemmas fix_lemma has replaced
   last |-> <<>>]         \* ghost: what the last fix_lemma was given and did

\* No analysis has been made of any code yet
PAInit == pa = NewAnalysis(<<>>)

\* The lemmas verify_all_lemmas compiles
Verifiable(a) ==
  {n \in DOMAIN a.declarations :
     a.declarations[n].type \in {"lemma", "theorem"} /\ a.declarations[n].has_proof}

\* The characters of a name as Python compares strings: the code points of
\* its words, "." (46) between identifiers, "_" (95) and the digit before
\* each numeric suffix.
WordCodes(w) ==
  CASE w = "A" -> <<65>>
    [] w = "L" -> <<76>>
    [] w = "foo" -> <<102, 111, 111>>
    [] w = "h" -> <<104>>

RECURSIVE SuffixCodes(_)
SuffixCodes(sfx) ==
  IF sfx = <<>> THEN <<>> ELSE <<95, 48 + Head(sfx)>> \o SuffixCodes(Tail(sfx))

RECURSIVE NameCodes(_)
NameCodes(n) ==
  IF n = <<>> THEN <<>>
  ELSE WordCodes(n[1].w) \o SuffixCodes(n[1].sfx)
       \o (IF Len(n) > 1 THEN <<46>> ELSE <<>>) \o NameCodes(Tail(n))

\* x < y of two str
StrLess(x, y) ==
  LET cx == NameCodes(x)
      cy == NameCodes(y)
  IN \E i \in 1..Len(cy) :
       /\ \A j \in 1..(i - 1) : j <= Len(cx) /\ cx[j] = cy[j]
       /\ i > Len(cx) \/ cx[i] < cy[i]

\* sorted(..., key=lambda x: x['start_line']) on the declarations names
RECURSIVE SortedByStartLine(_, _)
SortedByStartLine(a, names) ==
  IF names = {} THEN <<>>
  ELSE LET first == CHOOSE n \in names :
                      \A m \in names :
                        a.declarations[n].start_line <= a.declarations[m].start_line
       IN <<first>> \o SortedByStartLine(a, names \ {first})

\* sorted(names) of a list of str
RECURSIVE Sorted(_)
Sorted(names) ==
  IF names = {} THEN <<>>
  ELSE LET first == CHOOSE n \in names : \A m \in names \ {n} : StrLess(n, m)
       IN <<first>> \o Sorted(names \ {first})

\* get_error_lemmas_sorted: lemma_info holds the declared lemmas and theorems
\* in declaration order; the list returned is
\* "sorted([info['name'] for info in lemma_info if not info['is_correct']])"
GetErrorLemmasSorted(a) ==
  Sorted({n \in DOMAIN a.declarations :
               /\ a.declarations[n].type \in {"lemma", "theorem"}
               /\ n \in a.error_declarations})

\* re.search(r'\b' + re.escape(other_name) + r'\b', text) on a name the text
\* mentions
Mentions(n, other_name) ==
  \E j \in 1..Len(n) :
    /\ j + Len(other_name) - 1 <= Len(n)
    /\ SubSeq(n, j, j + Len(other_name) - 1) = other_name

\* The names in the text of a declaration after its first ":=": what the
\* block that has it mentions, and the whole of the blocks after it
ProofText(a, lemma_name) ==
  LET info == a.declarations[lemma_name]
      range == info.start_line..info.end_line
      proved == {k \in range : a.lines[k].has_proof}
  IN IF proved = {} THEN {}
     ELSE LET first == CHOOSE k \in proved : \A j \in proved : k <= j
              Refs(k) == {a.lines[k].refs[r] : r \in 1..Len(a.lines[k].refs)}
          IN Refs(first) \cup
             UNION {{a.lines[k].name} \cup Refs(k) : k \in {j \in range : j > first}}

\* _get_proof_dependencies
GetProofDependencies(a, lemma_name) ==
  {other_name \in DOMAIN a.declarations \ {lemma_name} :
     \E n \in ProofText(a, lemma_name) : Mentions(n, other_name)}

\* "should_include" of a lemma or theorem the proof uses
ShouldInclude(a, name) ==
  IF name \in DOMAIN a.lemma_compilation_results
    THEN a.lemma_compilation_results[name].complete
    ELSE name \notin a.error_declarations

\* "decl_text.replace('lemma', 'axiom', 1)" and
\* "axiom_text.split(':=', 1)[0]" on the text of a declaration: the keyword
\* is changed and what follows the first ":=" is dropped; a text without
\* ":=" is kept whole
AxiomText(a, name) ==
  LET info == a.declarations[name]
      range == info.start_line..info.end_line
      proved == {k \in range : a.lines[k].has_proof}
      first == IF proved = {} THEN info.end_line
               ELSE CHOOSE k \in proved : \A j \in proved : k <= j
  IN [k \in 1..(first - info.start_line + 1) |->
        LET b == a.lines[info.start_line + k - 1]
        IN [name |-> b.name,
            type |-> IF k = 1 THEN "axiom" ELSE b.type,
            has_proof |-> FALSE,
            refs |-> IF b.has_proof THEN <<>> ELSE b.refs]]

\* The declarations in the order of their start lines
SortedDecls(a) == SortedByStartLine(a, DOMAIN a.declarations)

\* _construct_subproblem_internal: the facts list, and the names of the
\* declarations whose text goes into the code before the theorem; the
\* theorem is the target with "theorem" for "lemma" and ":= by sorry" for
\* what follows its first ":="
ConstructSubproblemInternal(a, lemma_name) ==
  LET proof_deps == GetProofDependencies(a, lemma_name)
      sorted_decls == SortedDecls(a)
      Kind(name) == a.declarations[name].type
      facts == SelectSeq(sorted_decls,
                 LAMBDA name :
                   /\ name # lemma_name
                   /\ name \in proof_deps
                   /\ \/ Kind(name) = "axiom"
                      \/ Kind(name) \in {"lemma", "theorem"} /\ ShouldInclude(a, name))
      context_parts == SelectSeq(sorted_decls,
                         LAMBDA name : name # lemma_name /\ Kind(name) = "def")
  IN [lemma_name |-> lemma_name,
      theorem |-> [name |-> lemma_name, type |-> "theorem", sorry |-> TRUE],
      context_parts |-> context_parts,
      facts |-> [i \in 1..Len(facts) |->
                   IF Kind(facts[i]) = "axiom"
                     THEN SubSeq(a.lines, a.declarations[facts[i]].start_line,
                                 a.declarations[facts[i]].end_line)
                     ELSE AxiomText(a, facts[i])]]

\* construct_subproblem: the subproblem _cache_subproblems stored at the end
\* of verify_all_lemmas, or the one built now when the declarations have
\* been extracted again since
ConstructSubproblem(a, lemma_name) == ConstructSubproblemInternal(a, lemma_name)

\* mediumweight_inference_single, steps 3 and 4, on the analysis a that
\* verify_all_lemmas has filled: error_lemmas = get_error_lemmas_sorted(), and
\* for each of them in turn construct_subproblem and the task of its search
Launched(a) ==
  LET error_lemmas == GetErrorLemmasSorted(a)
  IN [a EXCEPT
        !.error_list = error_lemmas,
        !.launched = [i \in 1..Len(error_lemmas) |->
                        ConstructSubproblem(a, error_lemmas[i])],
        !.error_lemmas = {error_lemmas[i] : i \in 1..Len(error_lemmas)}]

\* The lemma whose search result the loop over task_results looks at next
NextResult(a) ==
  LET left == {i \in 1..Len(a.error_list) : a.error_list[i] \in a.error_lemmas}
  IN a.error_list[CHOOSE i \in left : \A j \in left : i <= j]

\* verify_all_lemmas, with _verify_lemma_async for each lemma, followed by
\* what the pass does with the analysis next (get_error_lemmas_sorted and
\* the subproblem of each error lemma): ok is the set of lemmas whose
\* compilation came back complete; the others came back incomplete or
\* raised, and either way get a result that is not complete.
VerifyAllLemmas(ok) ==
  /\ ~pa.verification_done
  /\ ok \subseteq Verifiable(pa)
  /\ pa' = Launched([pa EXCEPT
       !.lemma_compilation_results =
          [n \in Verifiable(pa) |-> [complete |-> n \in ok]],
       !.declarations =
          [n \in DOMAIN @ |->
             IF n \in Verifiable(pa) THEN [@[n] EXCEPT !.is_verified = n \in ok]
             ELSE @[n]],
       !.error_declarations = @ \cup (Verifiable(pa) \ ok),
       !.verification_done = TRUE])
  /\ UNCHANGED notPA

\* The fixed subproblems the lightweight pipeline can hand back for a lemma:
\* helper lemmas, each using the ones before it, then the lemma itself using
\* all of them; or a text in which the lemma is not declared.
HelperNames == {FOO, Suffixed(FOO, 1), Name1("h")}

RECURSIVE HelperSeqs(_)
HelperSeqs(n) ==
  IF n = 0 THEN {<<>>}
  ELSE HelperSeqs(n - 1) \cup
       {Append(s, h) : s \in {t \in HelperSeqs(n - 1) : Len(t) = n - 1},
                       h \in HelperNames}

Distinct(s) == \A i, j \in 1..Len(s) : i # j => s[i] # s[j]

FixedCode(lemma_name, helpers, type) ==
  [i \in 1..(Len(helpers) + 1) |->
     IF i <= Len(helpers)
       THEN Block(helpers[i], type, TRUE, SubSeq(helpers, 1, i - 1))
       ELSE Block(lemma_name, type, TRUE, helpers)]

FixedCodes(lemma_name) ==
  {FixedCode(lemma_name, hs, "theorem") :
     hs \in {s \in HelperSeqs(MaxHelpers) : Distinct(s)}}
  \cup {<<Block(Name1("h"), "theorem", TRUE, <<>>)>>}

\* fix_lemma, step 4: walk the declarations of the fixed code in order; a
\* helper whose name is taken gets a unique name, which is then taken too.
RECURSIVE NewLemmas(_, _, _, _)
NewLemmas(fixed, i, lemma_name, acc) ==
  IF i > Len(fixed) THEN acc
  ELSE LET d == fixed[i] IN
    IF d.type \in {"axiom", "def"} \/ d.name = lemma_name
      THEN NewLemmas(fixed, i + 1, lemma_name, acc)
    ELSE IF d.name \in acc.existing_names
      THEN LET new_name == GenerateUniqueName(d.name, acc.existing_names)
           IN NewLemmas(fixed, i + 1, lemma_name,
                [existing_names |-> acc.existing_names \cup {new_name},
                 name_mappings |-> Append(acc.name_mappings, <<d.name, new_name>>),
                 new_lemmas |-> Append(acc.new_lemmas,
                                       [name |-> new_name, text |-> d])])
      ELSE NewLemmas(fixed, i + 1, lemma_name,
                [existing_names |-> acc.existing_names \cup {d.name},
                 name_mappings |-> acc.name_mappings,
                 new_lemmas |-> Append(acc.new_lemmas,
                                       [name |-> d.name, text |-> d])])

\* steps 3, 5 and 6: the text that replaces the lemma: the helpers, renamed
\* and stated as lemmas, then the lemma, renamed and stated as it was
ReplacementText(a, lemma_name, target, s4) ==
  [i \in 1..(Len(s4.new_lemmas) + 1) |->
     IF i <= Len(s4.new_lemmas)
       THEN [ApplyMappings(s4.new_lemmas[i].text, s4.name_mappings)
               EXCEPT !.type = "lemma"]
       ELSE [ApplyMappings(target, s4.name_mappings)
               EXCEPT !.type = a.declarations[lemma_name].type]]

\* steps 9 and 10: the declarations are extracted again from the new code,
\* the lemmas fixed before get their flags back, and the lemma and its
\* helpers, under the names step 4 gave them, are marked fixed and verified
Reanalysed(a, lines) ==
  LET fresh == ExtractDeclarations(lines)
  IN [n \in DOMAIN fresh |->
        IF n \in DOMAIN a.declarations /\ a.declarations[n].was_fixed
          THEN [fresh[n] EXCEPT
                  !.was_fixed = TRUE,
                  !.is_verified =
                     IF n \in DOMAIN a.lemma_compilation_results
                       THEN a.lemma_compilation_results[n].complete
                       ELSE FALSE]
          ELSE fresh[n]]

RECURSIVE PutAll(_, _, _)
PutAll(d, ks, v) ==
  IF ks = {} THEN d
  ELSE LET k == CHOOSE k \in ks : TRUE IN PutAll(DictSet(d, k, v), ks \ {k}, v)

FixedAnalysis(a, lemma_name, fixed) ==
  LET target == fixed[CHOOSE i \in 1..Len(fixed) : fixed[i].name = lemma_name]
      s4 == NewLemmas(fixed, 1, lemma_name,
                      [existing_names |-> DOMAIN a.declarations,
                       name_mappings |-> <<>>, new_lemmas |-> <<>>])
      replacement == ReplacementText(a, lemma_name, target, s4)
      original_info == a.declarations[lemma_name]
      new_lines == SubSeq(a.lines, 1, original_info.start_line - 1)
                   \o replacement
                   \o SubSeq(a.lines, original_info.end_line + 1, Len(a.lines))
      decls == Reanalysed(a, new_lines)
      marked == ({lemma_name} \cup
                 {s4.new_lemmas[i].name : i \in 1..Len(s4.new_lemmas)})
                \cap DOMAIN decls
  IN [a EXCEPT
        !.lines = new_lines,
        !.fix_history = DictSet(@, lemma_name, [renamings |-> s4.name_mappings]),
        !.declarations =
           [n \in DOMAIN decls |->
              IF n \in marked
                THEN [decls[n] EXCEPT !.was_fixed = TRUE, !.is_verified = TRUE]
                ELSE decls[n]],
        !.lemma_compilation_results = PutAll(@, marked, [complete |-> TRUE]),
        !.error_declarations = @ \ marked,
        !.error_lemmas = @ \ {lemma_name},
        !.fixed = @ \cup {lemma_name},
        !.last = [lemma_name |-> lemma_name,
                  fixed |-> fixed,
                  existing |-> DOMAIN a.declarations,
                  name_mappings |-> s4.name_mappings,
                  new_lemmas |-> s4.new_lemmas,
                  replacement |-> replacement]]

\* The pass got a complete fix for one of its error lemmas and calls
\* fix_lemma(lemma_name, fixed): nothing happens if the lemma is no longer
\* declared or the fixed code does not declare it.
FixLemma(lemma_name, fixed) ==
  /\ pa.verification_done
  /\ lemma_name \in pa.error_lemmas
  /\ lemma_name = NextResult(pa)
  /\ pa' = IF \/ lemma_name \notin DOMAIN pa.declarations
              \/ \A i \in 1..Len(fixed) : fixed[i].name # lemma_name
             THEN [pa EXCEPT !.error_lemmas = @ \ {lemma_name}]
             ELSE FixedAnalysis(pa, lemma_name, fixed)
  /\ UNCHANGED notPA

\* The search for the next lemma came back without a complete proof, or
\* raised: the loop goes on to the next result.
NotFixed(lemma_name) ==
  /\ pa.verification_done
  /\ lemma_name \in pa.error_lemmas
  /\ lemma_name = NextResult(pa)
  /\ pa' = [pa EXCEPT !.error_lemmas = @ \ {lemma_name}]
  /\ UNCHANGED notPA

PANext ==
  \/ \E ok \in SUBSET Verifiable(pa) : VerifyAllLemmas(ok)
  \/ \E l \in pa.error_lemmas : \E f \in FixedCodes(l) : FixLemma(l, f)
  \/ \E l \in pa.error_lemmas : NotFixed(l)

----------------------------------------------------------------------------
\* ProofAnalysis.verify_all_lemmas, step by step, on the event loop it runs
\* on, with the CompilationScheduler behind compile().
\*
\* asyncio.gather makes one task of each _verify_lemma_async; a task and a
\* scheduler worker run when the loop reaches their callback, up to their
\* next await.  compile() puts (task_data, future) on the unbounded
\* asyncio.Queue, which does not suspend, and awaits the new future, which
\* does.  A worker that got an entry awaits the HTTP call; the reply comes at
\* any time and in any order among the workers.

\* Bound: the worker loops CompilationScheduler.start creates
NumVerWorkers == 2
VerWorkers == 1..NumVerWorkers

\* What the compilation of a verification file gives: a result that is
\* complete or not, or an exception out of _make_api_call
CompileOutcomes == {"complete", "incomplete", "raises"}

NoName == <<>>
NoFile == [lemma_name |-> NoName, context_parts |-> <<>>]

\* The callbacks of the loop: a step of the task of a lemma, of a worker, or
\* of verify_all_lemmas itself after gather
TaskCb(n) == [task |-> n, worker |-> 0]
WorkerCb(w) == [task |-> NoName, worker |-> w]
MainCb == [task |-> NoName, worker |-> 0]

\* _construct_verification_code: the names of the declarations whose text
\* goes before the target, in the order of their start lines: every def, the
\* axioms the proof uses, and the lemmas and theorems the proof uses for
\* which should_include holds (these as axioms); the target keeps its proof
ConstructVerificationCode(a, lemma_name) ==
  LET proof_deps == GetProofDependencies(a, lemma_name)
      Kind(name) == a.declarations[name].type
  IN [lemma_name |-> lemma_name,
      context_parts |->
        SelectSeq(SortedDecls(a),
          LAMBDA name :
            /\ name # lemma_name
            /\ \/ Kind(name) = "def"
               \/ Kind(name) = "axiom" /\ name \in proof_deps
               \/ /\ Kind(name) \in {"lemma", "theorem"}
                  /\ name \in proof_deps
                  /\ ShouldInclude(a, name))]

\* "for name, info in self.declarations.items()": the lemmas with a proof,
\* in the order of the dict
LemmaNames(a) == SortedByStartLine(a, Verifiable(a))

NewTask == [pc |-> "created", code |-> NoFile, fut |-> "none"]
IdleVerWorker == [pc |-> "idle", task |-> NoName, outcome |-> "-"]

NoVer ==
  [pc |-> "off", oracle |-> <<>>, num_workers |-> 0, loop |-> <<>>,
   task |-> <<>>, queue |-> <<>>, getters |-> <<>>,
   wk |-> [w \in VerWorkers |-> IdleVerWorker], recorded |-> <<>>]

\* No verification is under way
VerInit == ver = NoVer

\* A scheduler started with num_workers worker loops, all waiting in
\* self._queue.get(); oracle holds what the compiler has answered so far,
\* file by file
VerReady(num_workers) ==
  [NoVer EXCEPT
     !.pc = "init",
     !.num_workers = num_workers,
     !.getters = [w \in 1..num_workers |-> w],
     !.wk = [w \in VerWorkers |->
               IF w <= num_workers THEN [IdleVerWorker EXCEPT !.pc = "get"]
               ELSE IdleVerWorker]]

\* Mutant: the loop runs its callbacks in any order.
RunsNextAny(loop, i) == TRUE

\* The loop runs the callback that was scheduled first (call_soon appends,
\* _run_once takes from the left): the tasks gather made run in the order
\* they were made, and a task that was woken runs after those made before.
RunsNext(loop, i) == i = 1

\* verify_all_lemmas up to "await asyncio.gather(...)": one task for each
\* lemma or theorem with a proof
Gather ==
  /\ ver.pc = "init"
  /\ ~pa.verification_done
  /\ LET lemma_names == LemmaNames(pa)
     IN ver' = [ver EXCEPT
          !.pc = "gather",
          !.task = [n \in Verifiable(pa) |-> NewTask],
          !.loop = @ \o [i \in 1..Len(lemma_names) |-> TaskCb(lemma_names[i])]]
  /\ UNCHANGED pa
  /\ UNCHANGED notVer

\* _verify_lemma_async from its start to "await future" in compile(): the
\* verification code is built from what the analysis holds now, the entry is
\* put on the queue, and the first worker waiting in get() is woken
TaskStarts(v, a, n) ==
  LET woken == v.getters # <<>>
  IN [v EXCEPT
        !.task[n] = [pc |-> "awaiting",
                     code |-> ConstructVerificationCode(a, n),
                     fut |-> "pending"],
        !.queue = Append(@, n),
        !.getters = IF woken THEN Tail(@) ELSE @,
        !.loop = IF woken THEN Append(@, WorkerCb(Head(v.getters))) ELSE @]

\* "task_data, future = await self._queue.get()" then the call: the worker
\* takes the first entry and awaits the reply; with nothing on the queue it
\* waits in get()
WorkerTakes(v, w) ==
  IF v.queue = <<>>
    THEN [v EXCEPT !.wk[w] = [IdleVerWorker EXCEPT !.pc = "get"],
                   !.getters = Append(@, w)]
    ELSE [v EXCEPT !.wk[w] = [pc |-> "call", task |-> Head(v.queue), outcome |-> "-"],
                   !.queue = Tail(@)]

\* The worker has the reply: set_result or set_exception on the future, which
\* schedules the task that awaits it, then the next turn of "while True"
WorkerSets(v, w) ==
  LET n == v.wk[w].task
      set == [v EXCEPT !.task[n].fut = v.wk[w].outcome,
                       !.loop = Append(@, TaskCb(n))]
  IN WorkerTakes(set, w)

\* _verify_lemma_async after "await future": the result is recorded, or the
\* exception caught and a result that is not complete recorded in its place;
\* when the last task has returned, gather wakes verify_all_lemmas
TaskReturns(v, n) ==
  LET returned == [v EXCEPT !.task[n].pc = "returned",
                            !.recorded = Append(@, n)]
  IN IF \A m \in DOMAIN v.task : m # n => v.task[m].pc = "returned"
       THEN [returned EXCEPT !.loop = Append(@, MainCb)]
       ELSE returned

\* verify_all_lemmas after gather: the flags and error_declarations from the
\* values the tasks returned, in the order of lemma_names
AfterGather(a) ==
  [a EXCEPT
     !.declarations =
        [n \in DOMAIN @ |->
           IF n \in Verifiable(a)
             THEN [@[n] EXCEPT !.is_verified = a.lemma_compilation_results[n].complete]
             ELSE @[n]],
     !.error_declarations =
        @ \cup {n \in Verifiable(a) : ~a.lemma_compilation_results[n].complete},
     !.verification_done = TRUE]

\* The loop runs one callback
LoopStep ==
  /\ ver.pc = "gather"
  /\ \E i \in 1..Len(ver.loop) :
       /\ RunsNext(ver.loop, i)
       /\ LET cb == ver.loop[i]
              v == [ver EXCEPT !.loop = RemoveAt(@, i)]
          IN IF cb.task # NoName
               THEN IF v.task[cb.task].pc = "created"
                      THEN /\ ver' = TaskStarts(v, pa, cb.task)
                           /\ UNCHANGED pa
                      ELSE /\ ver' = TaskReturns(v, cb.task)
                           /\ pa' = [pa EXCEPT !.lemma_compilation_results =
                                       DictSet(@, cb.task,
                                         [complete |-> v.task[cb.task].fut = "complete"])]
             ELSE IF cb.worker # 0
               THEN /\ ver' = IF v.wk[cb.worker].pc = "called"
                                THEN WorkerSets(v, cb.worker)
                                ELSE WorkerTakes(v, cb.worker)
                    /\ UNCHANGED pa
             ELSE /\ ver' = [v EXCEPT !.pc = "done"]
                  /\ pa' = AfterGather(pa)
  /\ UNCHANGED notVer

\* The gateway's reply to the call of worker w arrives: outcome is what the
\* compiler makes of the file of the task, the same as it made of that file
\* before if it has seen it
ApiDone(w, outcome) ==
  /\ ver.pc = "gather"
  /\ ver.wk[w].pc = "call"
  /\ LET code == ver.task[ver.wk[w].task].code
     IN /\ code \in DOMAIN ver.oracle => outcome = ver.oracle[code]
        /\ ver' = [ver EXCEPT
             !.oracle = DictSet(@, code, outcome),
             !.wk[w].pc = "called",
             !.wk[w].outcome = outcome,
             !.loop = Append(@, WorkerCb(w))]
  /\ UNCHANGED pa
  /\ UNCHANGED notVer

VerNext ==
  \/ Gather
  \/ LoopStep
  \/ \E w \in VerWorkers, outcome \in CompileOutcomes : ApiDone(w, outcome)

----------------------------------------------------------------------------
\* multiprocess_compiler_pool_shange.py: split_import_and_body, applied by a
\* child to the code of every task; ProofAnalysis._extract_header and the
\* subproblem text built on it

MaxLines == 4         \* lines of a Lean source

Modules == {"Mathlib", "Aesop", "Foo"}

\* A line of a source: an import (with or without whitespace around it), an
\* empty line, an open or set_option line, any other line.  A text is the
\* sequence of its lines, as str.splitlines gives them.
ImportLine(m, indent) == [kind |-> "import", mod |-> m, indent |-> indent]
BlankLine == [kind |-> "blank", mod |-> "", indent |-> FALSE]
OpenLine == [kind |-> "open", mod |-> "", indent |-> FALSE]
CodeLine == [kind |-> "code", mod |-> "", indent |-> FALSE]

SourceLines ==
  {ImportLine(m, FALSE) : m \in Modules} \cup {ImportLine("Foo", TRUE)}
    \cup {BlankLine, OpenLine, CodeLine}

Sources == UNION {[1..n -> SourceLines] : n \in 0..MaxLines}

LinesOf(s) == {s[i] : i \in 1..Len(s)}

\* line.strip()
StripLine(line) == [line EXCEPT !.indent = FALSE]

\* line.strip().startswith("import")
StartsWithImport(line) == line.kind = "import"

\* DEFAULT_IMPORTS.strip(), as lines
DEFAULT_IMPORTS == <<ImportLine("Mathlib", FALSE), ImportLine("Aesop", FALSE)>>

\* "\n".join(lines), as the lines of the resulting string: a final empty
\* line leaves only a newline at the end of the string.
JoinLines(lines) ==
  IF lines # <<>> /\ lines[Len(lines)] = BlankLine
    THEN SubSeq(lines, 1, Len(lines) - 1)
  ELSE lines

\* split_import_and_body: "for i, line in enumerate(lines)"
RECURSIVE SplitLoop(_, _, _, _, _)
SplitLoop(lines, i, saw_import, import_lines, body_lines) ==
  IF i > Len(lines)
    THEN [import_lines |-> import_lines, body_lines |-> body_lines]
  ELSE IF StartsWithImport(lines[i])
    THEN SplitLoop(lines, i + 1, TRUE,
                   Append(import_lines, StripLine(lines[i])), body_lines)
  ELSE IF saw_import
    THEN [import_lines |-> import_lines,
          body_lines |-> SubSeq(lines, i, Len(lines))]
  ELSE SplitLoop(lines, i + 1, FALSE, import_lines, Append(body_lines, lines[i]))

\* Mutant: the defaults are used only when the code has no import (the
\* shadowed first definition of split_import_and_body).
CanonicalizesIfNone(import_lines) == import_lines = <<>>

\* "actual_import_lines.issubset(default_import_lines)"
Canonicalizes(import_lines) == LinesOf(import_lines) \subseteq LinesOf(DEFAULT_IMPORTS)

\* split_import_and_body(code): (import_block, lean_body).  The block that
\* moves trailing blank lines never runs: import_lines holds import lines
\* only, so last_import_idx + 1 = len(import_lines).
SplitImportAndBody(lines) ==
  LET r == SplitLoop(lines, 1, FALSE, <<>>, <<>>)
  IN [import_block |-> IF Canonicalizes(r.import_lines) THEN DEFAULT_IMPORTS
                       ELSE r.import_lines,
      lean_body |-> JoinLines(r.body_lines)]

\* str.strip() of a text: the whitespace at its two ends goes
RECURSIVE RStrip(_)
RStrip(lines) ==
  IF lines # <<>> /\ lines[Len(lines)] = BlankLine
    THEN RStrip(SubSeq(lines, 1, Len(lines) - 1))
  ELSE lines

RECURSIVE LStrip(_)
LStrip(lines) ==
  IF lines = <<>> THEN <<>>
  ELSE IF lines[1] = BlankLine THEN LStrip(Tail(lines))
  ELSE <<StripLine(lines[1])>> \o Tail(lines)

\* ProofAnalysis._extract_header
RECURSIVE HeaderLines(_)
HeaderLines(lines) ==
  IF lines = <<>> \/ lines[1].kind \notin {"import", "open", "blank"} THEN <<>>
  ELSE <<lines[1]>> \o HeaderLines(Tail(lines))

ExtractHeader(lines) == LStrip(RStrip(HeaderLines(lines)))

\* _construct_subproblem_internal: f"{self.header}\n{full_context}\n{theorem_text}"
\* with no def in the context
Subproblem(lines) ==
  LET header == ExtractHeader(lines)
  IN (IF header = <<>> THEN <<BlankLine>> ELSE header) \o <<BlankLine, CodeLine>>

NoSplit == [import_block |-> <<>>, lean_body |-> <<>>]

SplitInit == split = [at |-> "source", code |-> <<>>, text |-> <<>>, result |-> NoSplit]

\* worker(): split_import_and_body(task_payload["code"]) on a source
SplitCode ==
  /\ split.at = "source"
  /\ split' = [split EXCEPT !.at = "split", !.text = split.code,
                            !.result = SplitImportAndBody(split.code)]
  /\ UNCHANGED notSplit

\* The same on the subproblem text a ProofAnalysis of the source builds
SplitSubproblem ==
  /\ split.at = "source"
  /\ split' = [split EXCEPT !.at = "split_subproblem",
                            !.text = Subproblem(split.code),
                            !.result = SplitImportAndBody(Subproblem(split.code))]
  /\ UNCHANGED notSplit

SplitNext ==
  \/ SplitCode
  \/ SplitSubproblem

----------------------------------------------------------------------------
\* ProofAnalysis after verify_all_lemmas: _get_all_dependencies,
\* is_lemma_fully_correct and get_fully_correct_lemmas

RecursionLimit == 4   \* nested calls of is_lemma_fully_correct before
                      \* RecursionError; more than there are declarations

DeclNames == {"A", "B", "C"}

\* What a declaration is after verification: a lemma or theorem whose
\* isolated compilation was complete, one whose compilation was not, one
\* without a proof (no ":=", so never compiled), or a def.
DeclKinds == {"complete", "failed", "noproof", "def"}

\* info['type'] in ['lemma', 'theorem']
IsLemma(kind) == kind # "def"

\* The declarations tables: _extract_declarations, third pass, gives a
\* lemma, theorem or def as dependencies the other names its text mentions.
DeclTables ==
  [DeclNames -> [kind : DeclKinds, dependencies : SUBSET DeclNames]]

WellFormedTable(d) == \A n \in DeclNames : n \notin d[n].dependencies

\* _get_all_dependencies(lemma_name, visited): the pair of what it returns
\* and the visited set it leaves, which the recursive calls share.
RECURSIVE GetAllDependencies(_, _, _)
RECURSIVE VisitDeps(_, _, _, _)
GetAllDependencies(d, lemma_name, visited) ==
  IF lemma_name \in visited THEN [all_deps |-> {}, visited |-> visited]
  ELSE VisitDeps(d, d[lemma_name].dependencies, d[lemma_name].dependencies,
                 visited \cup {lemma_name})

\* "for dep in direct_deps", with all_deps and visited so far
VisitDeps(d, todo, all_deps, visited) ==
  IF todo = {} THEN [all_deps |-> all_deps, visited |-> visited]
  ELSE LET dep == CHOOSE x \in todo : TRUE
       IN IF IsLemma(d[dep].kind)
            THEN LET r == GetAllDependencies(d, dep, visited)
                 IN VisitDeps(d, todo \ {dep}, all_deps \cup r.all_deps, r.visited)
          ELSE VisitDeps(d, todo \ {dep}, all_deps, visited)

AllDependencies(d, lemma_name) == GetAllDependencies(d, lemma_name, {}).all_deps

\* is_lemma_fully_correct: "for dep in all_deps: if dep in self.declarations
\* and self.declarations[dep]['type'] in ['lemma', 'theorem']"
CheckedDeps(d, lemma_name) ==
  {dep \in AllDependencies(d, lemma_name) : IsLemma(d[dep].kind)}

\* is_lemma_fully_correct(lemma_name) with `depth` nested calls left: the
\* outcomes it can have.  all_deps is a set of strings, which the loop walks
\* in an order that differs from run to run: it returns False at the first
\* dependency that is not fully correct and raises at the first nested call
\* that exceeds the recursion limit.
RECURSIVE IsLemmaFullyCorrect(_, _, _)
IsLemmaFullyCorrect(d, lemma_name, depth) ==
  IF d[lemma_name].kind # "complete" THEN {"False"}
  ELSE IF depth = 0 THEN {"RecursionError"}
  ELSE LET deps == CheckedDeps(d, lemma_name)
           outs == [dep \in deps |-> IsLemmaFullyCorrect(d, dep, depth - 1)]
       IN {o \in {"True"} : \A dep \in deps : "True" \in outs[dep]}
            \cup {o \in {"False", "RecursionError"} : \E dep \in deps : o \in outs[dep]}

\* get_fully_correct_lemmas: the names it can list, or RecursionError
HasProof(kind) == kind \in {"complete", "failed"}

FullyCorrectLists(d) ==
  LET names == {n \in DeclNames : HasProof(d[n].kind)}
      outs == [n \in names |-> IsLemmaFullyCorrect(d, n, RecursionLimit)]
  IN {[answer |-> "list", listed |-> fully_correct] :
        fully_correct \in
          {l \in SUBSET names :
             \A n \in names : IF n \in l THEN "True" \in outs[n]
                              ELSE "False" \in outs[n]}}
       \cup {[answer |-> e, listed |-> {}] :
               e \in {o \in {"RecursionError"} : \E n \in names : o \in outs[n]}}

\* The query made on the analysis: what was asked, and what came back (the
\* answer, or "list" with the names listed)
NoQuery == [at |-> "verified", lemma_name |-> "-", answer |-> "-", listed |-> {}]

DepInit == da = [declarations |-> <<>>, q |-> NoQuery]

\* A caller asks is_lemma_fully_correct(lemma_name)
AskFullyCorrect(lemma_name) ==
  /\ da.q.at = "verified"
  /\ \E out \in IsLemmaFullyCorrect(da.declarations, lemma_name, RecursionLimit) :
       da' = [da EXCEPT !.q = [at |-> "answered", lemma_name |-> lemma_name,
                               answer |-> out, listed |-> {}]]
  /\ UNCHANGED notDep

\* A caller asks get_fully_correct_lemmas()
AskFullyCorrectLemmas ==
  /\ da.q.at = "verified"
  /\ \E out \in FullyCorrectLists(da.declarations) :
       da' = [da EXCEPT !.q = [at |-> "listed", lemma_name |-> "-",
                               answer |-> out.answer, listed |-> out.listed]]
  /\ UNCHANGED notDep

DepNext ==
  \/ \E n \in DeclNames : AskFullyCorrect(n)
  \/ AskFullyCorrectLemmas

----------------------------------------------------------------------------
\* The specifications: one per program

InitSched ==
  /\ RegInit
  /\ VerInit
  /\ SchedInitOf("inference") \/ SchedInitOf("compilation")
  /\ GwInitOf("llm")
  /\ WorkerInit
  /\ PoolInit
  /\ SearchInitOf("lw")
  /\ CallerInit
  /\ PAInit
  /\ SplitInit
  /\ DepInit

SpecSched == InitSched /\ [][SchedNext]_vars

InitWorker ==
  /\ RegInit
  /\ VerInit
  /\ SchedInitOf("inference")
  /\ GwInitOf("llm")
  /\ WorkerInit
  /\ PoolInit
  /\ SearchInitOf("lw")
  /\ CallerInit
  /\ PAInit
  /\ SplitInit
  /\ DepInit

SpecWorker == InitWorker /\ [][WorkerNext]_vars

InitPool ==
  /\ RegInit
  /\ VerInit
  /\ SchedInitOf("inference")
  /\ GwInitOf("llm")
  /\ WorkerInit
  /\ PoolInit
  /\ SearchInitOf("lw")
  /\ CallerInit
  /\ PAInit
  /\ SplitInit
  /\ DepInit

SpecPool == InitPool /\ [][PoolNext]_vars

\* The steps of the pool itself: the children, which are processes of their
\* own (every compiler run is cut off at import_timeout + proof_timeout), and
\* the puts and polls of the run_batch calls under way.
PoolStep ==
  \/ \E c \in CallerIds : Put(c)
  \/ \E c \in CallerIds : Poll(c)
  \/ ChildGet
  \/ \E env \in child : ChildAppend(env)

InitGw ==
  /\ RegInit
  /\ VerInit
  /\ SchedInitOf("inference")
  /\ WorkerInit
  /\ PoolInit
  /\ GwInitOf("llm") \/ GwInitOf("comp")
  /\ SearchInitOf("lw")
  /\ CallerInit
  /\ PAInit
  /\ SplitInit
  /\ DepInit

SpecGw == InitGw /\ [][GwNext]_vars

InitLw ==
  /\ RegInit
  /\ VerInit
  /\ SchedInitOf("inference")
  /\ WorkerInit
  /\ PoolInit
  /\ GwInitOf("llm")
  /\ SearchInitOf("lw")
  /\ CallerInit
  /\ PAInit
  /\ SplitInit
  /\ DepInit

SpecLw == InitLw /\ [][LwNext]_vars

InitReg ==
  /\ RegInit
  /\ VerInit
  /\ SchedInitOf("inference")
  /\ WorkerInit
  /\ PoolInit
  /\ GwInitOf("llm")
  /\ SearchInitOf("lw")
  /\ CallerInit
  /\ PAInit
  /\ SplitInit
  /\ DepInit

SpecReg == InitReg /\ [][RegNext]_vars

InitMw ==
  /\ RegInit
  /\ VerInit
  /\ SchedInitOf("inference")
  /\ WorkerInit
  /\ PoolInit
  /\ GwInitOf("llm")
  /\ SearchInitOf("mw")
  /\ CallerInit
  /\ PAInit
  /\ SplitInit
  /\ DepInit

SpecMw == InitMw /\ [][MwNext]_vars

\* mediumweight_inference with the token usage of the subproblem searches
MwUsageNext ==
  \/ \E p \in PassIds : MwStart(p)
  \/ \E p \in PassIds, out \in InfOutcomes, u \in Usages : MwInitInf(p, out, u)
  \/ \E p \in PassIds, out \in CompOutcomes, hasErrors \in BOOLEAN :
       MwInitComp(p, out, hasErrors)
  \/ \E p \in PassIds, errs \in SUBSET Lemmas : MwVerify(p, errs)
  \/ \E p \in PassIds, l \in Lemmas, u \in Usages : SubReceives(p, l, u)
  \/ \E p \in PassIds, l \in Lemmas : SubToGather(p, l)
  \/ \E p \in PassIds, l \in Lemmas : SubIssues(p, l)
  \/ \E p \in PassIds, l \in Lemmas,
        out \in {"complete", "incomplete", "raised", "cancelled"} : SubFinish(p, l, out)
  \/ \E p \in PassIds : MwFixDone(p)
  \/ \E p \in PassIds, out \in CompOutcomes : MwFinal(p, out)
  \/ \E p \in PassIds : MwCancelled(p)
  \/ OrchObserve
  \/ OrchCancel
  \/ OrchReturn
  \/ OrchCancelled

SpecMwUsage == InitMw /\ [][MwUsageNext]_vars

InitPass ==
  /\ RegInit
  /\ VerInit
  /\ SchedInitOf("inference")
  /\ WorkerInit
  /\ PoolInit
  /\ GwInitOf("llm")
  /\ SearchInitOf("single")
  /\ CallerInit
  /\ PAInit
  /\ SplitInit
  /\ DepInit

SpecPass == InitPass /\ [][PassNext]_vars

InitCaller ==
  /\ RegInit
  /\ VerInit
  /\ SchedInitOf("inference")
  /\ WorkerInit
  /\ PoolInit
  /\ GwInitOf("llm")
  /\ SearchInitOf("lw")
  /\ CallerInit
  /\ PAInit
  /\ SplitInit
  /\ DepInit

SpecCaller == InitCaller /\ [][CallerNext]_vars

InitMwCaller ==
  /\ RegInit
  /\ VerInit
  /\ SchedInitOf("inference")
  /\ WorkerInit
  /\ PoolInit
  /\ GwInitOf("llm")
  /\ SearchInitOf("mw")
  /\ MwCallerInit
  /\ PAInit
  /\ SplitInit
  /\ DepInit

SpecMwCaller == InitMwCaller /\ [][MwCallerNext]_vars

InitPA ==
  /\ RegInit
  /\ VerInit
  /\ SchedInitOf("inference")
  /\ WorkerInit
  /\ PoolInit
  /\ GwInitOf("llm")
  /\ SearchInitOf("lw")
  /\ CallerInit
  /\ \E foo_proved \in BOOLEAN : pa = NewAnalysis(InitialCode(foo_proved))
  /\ SplitInit
  /\ DepInit

SpecPA == InitPA /\ [][PANext]_vars

InitVerify ==
  /\ RegInit
  /\ SchedInitOf("compilation")
  /\ WorkerInit
  /\ PoolInit
  /\ GwInitOf("llm")
  /\ SearchInitOf("lw")
  /\ CallerInit
  /\ \E foo_proved \in BOOLEAN : pa = NewAnalysis(InitialCode(foo_proved))
  /\ \E num_workers \in VerWorkers : ver = VerReady(num_workers)
  /\ SplitInit
  /\ DepInit

SpecVerify == InitVerify /\ [][VerNext]_vars

InitSplit ==
  /\ RegInit
  /\ VerInit
  /\ SchedInitOf("inference")
  /\ WorkerInit
  /\ PoolInit
  /\ GwInitOf("llm")
  /\ SearchInitOf("lw")
  /\ CallerInit
  /\ PAInit
  /\ \E code \in Sources :
       split = [at |-> "source", code |-> code, text |-> <<>>, result |-> NoSplit]
  /\ DepInit

SpecSplit == InitSplit /\ [][SplitNext]_vars

InitDep ==
  /\ RegInit
  /\ VerInit
  /\ SchedInitOf("inference")
  /\ WorkerInit
  /\ PoolInit
  /\ GwInitOf("llm")
  /\ SearchInitOf("lw")
  /\ CallerInit
  /\ PAInit
  /\ SplitInit
  /\ \E d \in DeclTables :
       /\ WellFormedTable(d)
       /\ da = [declarations |-> d, q |-> NoQuery]

SpecDep == InitDep /\ [][DepNext]_vars

----------------------------------------------------------------------------
\* Claims about the schedulers (checked under SpecSched)

QueueIds(q) == {q[i].id : i \in 1..Len(q)}

\* C1: whenever a worker loop dequeues a task, that task has the least
\* (priority, submission number) of all tasks then waiting in the queue of an
\* InferenceSchedulerService, and the least submission number of all tasks
\* then waiting in the queue of a CompilationSchedulerService.
Dequeues(w) == wk[w].pc = "get" /\ wk'[w].pc = "call"

LeastWaiting(t) ==
  /\ t \in QueueIds(queue)
  /\ \A i \in 1..Len(queue) :
       LET e == queue[i]
           p == (CHOOSE x \in 1..Len(queue) : queue[x].id = t)
       IN IF sched_kind = "inference"
            THEN \/ queue[p].priority < e.priority
                 \/ queue[p].priority = e.priority /\ t <= e.id
            ELSE t <= e.id

C1_DispatchOrder ==
  [][\A w \in WorkerIds : Dequeues(w) => LeastWaiting(wk'[w].task)]_vars

\* C1 witness: a task was dispatched while a task submitted before it and
\* with a higher priority number is still waiting.
C1_Witness ==
  \E w \in WorkerIds :
    /\ wk[w].pc = "call"
    /\ \E i \in 1..Len(queue) :
         queue[i].id < wk[w].task /\ queue[i].priority > P_REVISION

\* C2: at most NumWorkers upstream requests are outstanding, and once the
\* loops run, all NumWorkers of them keep running whatever the upstream
\* calls did.
LiveLoops == {w \in WorkerIds : wk[w].pc \in {"get", "call"}}

C2_ConcurrencyCap ==
  /\ Cardinality(inflight) <= NumWorkers
  /\ started => Cardinality(LiveLoops) = NumWorkers

\* C2 witness: every loop has a request outstanding, a task is waiting, and
\* an earlier upstream call failed.
C2_Witness ==
  /\ Cardinality(inflight) = NumWorkers
  /\ queue # <<>>
  /\ \E t \in TaskIds : raised[t] \in {"HTTPStatusError", "RequestError"}

\* C3: a task whose future was cancelled while it waited in the queue is
\* discarded on dequeue: no upstream request is sent for it.
C3_DiscardedOnDequeue ==
  \A w \in WorkerIds : wk[w].pc = "call" => wk[w].futAtDeq # "cancelled"

----------------------------------------------------------------------------
\* Claims about the compilation worker (checked under SpecWorker)

\* C5: a compile request only ever runs run_batch on a pool that is Ready.
C5_RunsOnReadyPool ==
  \A q \in ReqIds : req[q].pc = "run" => Ready(req[q].pool)

\* C6: a request that arrived while _perform_pool_restart held the mutex
\* runs its batch on the new pool, never on the pool that was installed when
\* it arrived.
C6_RunsOnNewPool ==
  \A q \in ReqIds :
    (req[q].pc \in {"run", "done"} /\ req[q].duringRestart) =>
      req[q].pool # req[q].seenPool

----------------------------------------------------------------------------
\* Claims about the process pool (checked under SpecPool)

\* C7: run_batch(tasks) returns exactly len(tasks) results, the i-th being
\* the result of tasks[i] and of its own batch, whatever the order in which
\* the children finished and whatever other batches are running; it removes
\* exactly its own results from the shared list and leaves the others.
Returns(c) == rb[c].pc # "done" /\ rb'[c].pc = "done"

C7_RunBatchResults ==
  [][\A c \in CallerIds : Returns(c) =>
       LET tasks == rb[c].tasks
           ret == rb'[c].ret
           id == rb[c].batch_id
       IN /\ Len(ret) = Len(tasks)
          /\ \A i \in 1..Len(tasks) :
               /\ ret[i].payload = tasks[i]
               /\ \E j \in 1..Len(result_list) :
                    /\ result_list[j].batch_id = id
                    /\ result_list[j].index = i - 1
                    /\ Popped(result_list[j]) = ret[i]
          /\ tasks # <<>> =>
               /\ \A j \in 1..Len(result_list') : result_list'[j].batch_id # id
               /\ result_list' = SelectSeq(result_list, LAMBDA r : r.batch_id # id)
               /\ Len(result_list) = Len(result_list') + Len(tasks)]_vars

\* C7 witness: a batch of two tasks returned although its second result
\* arrived first and between results of another batch, which stay listed.
C7_Witness ==
  \E c \in CallerIds :
    /\ rb[c].pc = "done"
    /\ Len(rb[c].tasks) = 2
    /\ rb[c].tasks[1] # rb[c].tasks[2]
    /\ rb[c].collected[1].index = 1
    /\ result_list # <<>>

----------------------------------------------------------------------------
\* Claims about the gateways

\* The urls of a pool in list order: the pool of a model (llm, empty when the
\* model has none) or the flat pool (comp).
UrlsOf(kind, wp, key) ==
  IF kind = "comp" THEN wp
  ELSE IF key \in DOMAIN wp THEN [i \in 1..Len(wp[key]) |-> wp[key][i].url]
  ELSE <<>>

PoolKeys == IF gw_kind = "llm" THEN Models ELSE {Flat}

PosIn(l, u) == CHOOSE i \in 1..Len(l) : l[i] = u

\* C8: while a pool is not changed by registration or eviction, the requests
\* forwarded from it go to its workers cyclically in registration order: each
\* goes to the worker registered next after the one the previous request went
\* to, the last being followed by the first, and when the pool has not
\* changed since before its first request the i-th request goes to worker
\* ((i-1) mod k)+1, so A, B, A, B, A for A then B.  Every model's pool rotates
\* so whatever is forwarded for the other models in between, and so does the
\* flat pool of the compilation gateway.
C8_RoundRobin ==
  \A key \in PoolKeys :
    LET pool == UrlsOf(gw_kind, WORKER_POOL, key)
        log == rr_log[key]
        k == Len(pool)
    IN /\ \A i \in 1..Len(log) : log[i] \in SeqRange(pool)
       /\ \A i \in 1..(Len(log) - 1) :
            log[i + 1] = pool[(PosIn(pool, log[i]) % k) + 1]
       /\ ~rr_moved[key] =>
            \A i \in 1..Len(log) : log[i] = pool[((i - 1) % k) + 1]

\* C8 witness: A then B registered to m1, three requests for m1 went A, B, A
\* while requests for m2 were forwarded too.
C8_Witness ==
  /\ gw_kind = "llm"
  /\ UrlsOf(gw_kind, WORKER_POOL, "m1") = <<"A", "B">>
  /\ ~rr_moved["m1"]
  /\ rr_log["m1"] = <<"A", "B", "A">>
  /\ rr_log["m2"] # <<>>

\* C9: no dispatch indexes outside the pool it selects from or returns a
\* worker that is not in that pool; when the saved cursor is not below the
\* pool's length the worker at index 0 is selected, and the cursor left
\* behind is the next index after the selected one.
C9_CursorReset ==
  /\ sel.status # 500
  /\ sel.status = 200 =>
       LET pool == IF gw_kind = "comp" THEN sel.workers
                   ELSE [i \in 1..Len(sel.workers) |-> sel.workers[i].url]
           n == Len(pool)
       IN /\ sel.idx \in 0..(n - 1)
          /\ sel.url = pool[sel.idx + 1]
          /\ sel.cursor >= n => sel.idx = 0
          /\ sel.cursor < n => sel.idx = sel.cursor
          /\ sel.next = (sel.idx + 1) % n

\* C9 witness: a dispatch found the saved cursor at or beyond the end of the
\* pool that eviction had shrunk, and selected the worker at index 0.
C9_Witness ==
  /\ sel.status = 200
  /\ hc.done
  /\ sel.cursor >= Len(sel.workers)
  /\ sel.idx = 0
  /\ rr_moved[sel.pool]

EvictStep == hc.pc = "probe" /\ hc'.pc = "sleep"

ForwardStep ==
  /\ WORKER_POOL' = WORKER_POOL
  /\ hc' = hc
  /\ <<sel, rr_log, MODEL_INDICES, WORKER_INDEX>>' #
       <<sel, rr_log, MODEL_INDICES, WORKER_INDEX>>

\* C10: the step that ends a health tick leaves no url whose probe failed in
\* any pool, and leaves every other worker, probed with success or registered
\* while the probes were in flight, in each pool it was in; a request is
\* forwarded only to a worker of the pool as it is then, and gets 404 (503
\* from the compilation gateway) exactly when that pool has no worker.
C10_Eviction ==
  [][/\ EvictStep =>
          /\ \A key \in PoolKeys :
               LET before == UrlsOf(gw_kind, WORKER_POOL, key)
                   after == UrlsOf(gw_kind, WORKER_POOL', key)
               IN /\ SeqRange(after) = SeqRange(before) \ hc.unhealthy
                  /\ after = SelectSeq(before, LAMBDA u : u \notin hc.unhealthy)
          /\ gw_kind = "llm" =>
               /\ \A m \in DOMAIN WORKER_POOL' : WORKER_POOL'[m] # <<>>
               /\ DOMAIN WORKER_POOL' \subseteq DOMAIN WORKER_POOL
               /\ \A m \in DOMAIN WORKER_POOL' :
                    SeqRange(WORKER_POOL'[m]) \subseteq SeqRange(WORKER_POOL[m])
     /\ ForwardStep =>
          LET pool == UrlsOf(gw_kind, WORKER_POOL, sel'.pool)
          IN IF pool = <<>>
               THEN sel'.status = IF gw_kind = "llm" THEN 404 ELSE 503
               ELSE sel'.status = 200 /\ sel'.url \in SeqRange(pool)
    ]_vars

\* C10 witness: a health tick has ended in which a url failed its probe and
\* another url was registered while the probes were in flight; the first is
\* in no pool, the second is still registered, and a request for a model left
\* without workers got 404.
C10_Witness ==
  /\ gw_kind = "llm"
  /\ hc.pc = "sleep"
  /\ hc.done
  /\ hc.unhealthy # {}
  /\ hc.during \ hc.unhealthy # {}
  /\ hc.unhealthy \cap AllWorkers(WORKER_POOL) = {}
  /\ hc.during \ hc.unhealthy \subseteq AllWorkers(WORKER_POOL)
  /\ sel.status = 404
  /\ sel.pool \notin DOMAIN WORKER_POOL

----------------------------------------------------------------------------
\* Claims about the proof searches (checked under SpecLw and SpecMw)

\* The subproblem searches a pass created
FixTasks(p) == {l \in Lemmas : sub[p][l].st # "none"}

\* The passes that returned a record, in the order they finished
ReturnedInOrder == SelectSeq(done_q, LAMBDA q : pass[q].end = "returned")

\* C11: once the lightweight_inference task has been cancelled no pass issues
\* an inference or compilation request any more, and the task ends only by
\* re-raising the cancellation, with every pass ended; once a mediumweight
\* pass awaiting its subproblem searches has been cancelled, no search of its
\* issues a request any more, and the pass ends cancelled with every search
\* of its ended.
C11_CancelPropagates ==
  /\ [](search_kind = "lw" /\ orch.cancels > 0 /\ orch.pc \in {"returned", "cancelled"}
          => orch.pc = "cancelled" /\ \A q \in PassIds : pass[q].pc = "end")
  /\ [][search_kind = "lw" /\ orch.cancels > 0
          => \A q \in PassIds : /\ pass'[q].nInf = pass[q].nInf
                                /\ pass'[q].nComp = pass[q].nComp]_vars
  /\ [](\A q \in PassIds :
          /\ \A l \in Lemmas : ~sub[q][l].after
          /\ pass[q].pc = "end" /\ pass[q].cancel /\ FixTasks(q) # {}
               => /\ pass[q].end = "cancelled"
                  /\ \A l \in Lemmas : SubEnded(sub[q][l]))

\* C12: the step in which an orchestrator observes a complete record cancels
\* every pass that has not ended and keeps that record; an orchestrator that
\* succeeded returns only that record, and when it returns every pass has
\* ended.
C12_FirstCompleteWins ==
  /\ [][~orch.success /\ orch'.success
          => /\ \A q \in PassIds : pass[q].pc # "end" => pass'[q].cancel
             /\ orch'.return_dict = pass[done_q[orch.taken + 1]].rec
             /\ orch'.return_dict.complete]_vars
  /\ [][orch.success => orch'.return_dict = orch.return_dict]_vars
  /\ [](orch.ret.returned
          => /\ \A q \in PassIds : pass[q].pc = "end"
             /\ orch.success => orch.ret.rec = orch.return_dict)

\* C12 witness: a mediumweight search returned the complete record of one
\* pass after cancelling a sibling that was awaiting its subproblem searches.
C12_Witness ==
  /\ search_kind = "mw"
  /\ orch.ret.returned
  /\ orch.ret.rec.complete
  /\ \E q \in PassIds : pass[q].end = "cancelled" /\ FixTasks(q) # {}

\* C13: the shared token usage always is the component-wise sum of the usage
\* of every response a pass has received, and the token_usage that
\* lightweight_inference returns is that sum.
C13_TokenUsage ==
  search_kind = "lw" =>
    /\ combined_token_usage = usage_seen
    /\ orch.ret.returned => orch.ret.token_usage = usage_seen

\* C13 witness: the search returned the usage of three responses or more,
\* one pass having been cancelled after it had received a response.
C13_Witness ==
  /\ search_kind = "lw"
  /\ orch.ret.returned
  /\ \E q \in PassIds : pass[q].end = "cancelled" /\ pass[q].nComp > 0
  /\ orch.ret.token_usage.total_tokens >= 3

\* C14: lightweight_inference returns the record of a pass that compiled
\* complete if any pass did, otherwise the record of the pass that returned
\* first, otherwise the synthetic failure record.
C14_ReturnSelection ==
  search_kind = "lw" /\ orch.ret.returned =>
    LET completes == {q \in PassIds : pass[q].end = "returned" /\ pass[q].rec.complete}
    IN IF completes # {} THEN orch.ret.rec \in {pass[q].rec : q \in completes}
       ELSE IF ReturnedInOrder # <<>> THEN orch.ret.rec = pass[ReturnedInOrder[1]].rec
       ELSE orch.ret.rec = SyntheticRec

\* The lightweight pass q returned the verdict of its initial compilation,
\* which was complete.
InitialComplete(q) ==
  /\ search_kind = "lw"
  /\ pass[q].end = "returned"
  /\ pass[q].rec = Rec(q, TRUE, 0, 0)

\* C15 as stated: a pass whose initial proof compiled complete issued exactly
\* one inference request and one compilation request.
C15_OneInference ==
  \A q \in PassIds : InitialComplete(q) => pass[q].nInf = 1 /\ pass[q].nComp = 1

\* C15 amended: a pass whose initial proof compiled complete issued one
\* compilation request and, besides the inference request whose response it
\* compiled, one inference request for each initial attempt that raised (each
\* paid with one revision, so at most NumRev of them), and no other.
C15_OneAcceptedInference ==
  \A q \in PassIds :
    InitialComplete(q) =>
      /\ pass[q].nComp = 1
      /\ pass[q].nInf = 1 + (NumRev - pass[q].left)
      /\ pass[q].nInf <= 1 + NumRev

\* C15 witness: a pass returned the complete verdict of its initial
\* compilation after an initial inference attempt had raised.
C15_Witness ==
  \E q \in PassIds : InitialComplete(q) /\ pass[q].nInf = 2

----------------------------------------------------------------------------
\* Claims about the priorities of the lightweight search (checked under
\* SpecCaller)

\* The tasks submitted so far
Asked == {t \in TaskIds : asked[t].problem # 0}

\* C16: every revision request of a problem was submitted with a smaller
\* priority number than every initial request of a problem with a larger
\* index, and than every revision request of an earlier round of its own
\* problem; and a worker never dequeues the initial request of a problem
\* while a revision request of a problem with a smaller index is waiting.
C16_RevisionsFirst ==
  /\ [](\A t, u \in Asked :
          /\ asked[t].round >= 0 /\ asked[u].round = -1
               /\ asked[t].problem < asked[u].problem
               => asked[t].priority < asked[u].priority
          /\ asked[t].problem = asked[u].problem /\ asked[u].round >= 0
               /\ asked[t].round > asked[u].round
               => asked[t].priority < asked[u].priority)
  /\ [][\A w \in WorkerIds :
          Dequeues(w) /\ asked[wk'[w].task].round = -1
            => \A k \in 1..Len(queue) :
                 ~(/\ asked[queue[k].id].round >= 0
                   /\ asked[queue[k].id].problem < asked[wk'[w].task].problem)]_vars

\* C16 witness: a worker holds a revision request of problem 1 while the
\* initial request of problem 2, submitted before it, is still waiting.
C16_Witness ==
  \E w \in WorkerIds :
    /\ wk[w].pc = "call"
    /\ asked[wk[w].task].round >= 0
    /\ asked[wk[w].task].problem = 1
    /\ \E k \in 1..Len(queue) :
         /\ queue[k].id < wk[w].task
         /\ asked[queue[k].id].round = -1
         /\ asked[queue[k].id].problem = 2


\* C35: in a mediumweight run over problems with indices i < j, an inference
\* request issued for a revision of one of problem i's subproblems has a
\* strictly smaller priority number than the initial full-proof generation
\* request of problem j, and a worker never dequeues the initial full-proof
\* request of problem j while such a revision request of problem i waits.
C35_SubRevisionsBeforeInitial ==
  /\ [](\A t, u \in Asked :
          asked[t].round >= 0 /\ asked[u].round = MwInitial
            /\ asked[t].problem < asked[u].problem
            => asked[t].priority < asked[u].priority)
  /\ [][\A w \in WorkerIds :
          Dequeues(w) /\ asked[wk'[w].task].round = MwInitial
            => \A k \in 1..Len(queue) :
                 ~(/\ asked[queue[k].id].round >= 0
                   /\ asked[queue[k].id].problem < asked[wk'[w].task].problem)]_vars

----------------------------------------------------------------------------
\* Claims about ProofAnalysis (checked under SpecPA)

ResultComplete(a, n) ==
  n \in DOMAIN a.lemma_compilation_results /\ a.lemma_compilation_results[n].complete

ProvedAndIncomplete(a) ==
  {n \in DOMAIN a.declarations :
     /\ a.declarations[n].type \in {"lemma", "theorem"}
     /\ a.declarations[n].has_proof
     /\ ~ResultComplete(a, n)}

\* C17: after verify_all_lemmas and after every later fix_lemma,
\* error_declarations is exactly the set of the declared lemmas and theorems
\* that have a proof and whose recorded compilation result is not complete.
C17_ErrorDeclarations ==
  pa.verification_done => pa.error_declarations = ProvedAndIncomplete(pa)

\* C18: every lemma fix_lemma has replaced has an entry in fix_history, is
\* declared with was_fixed and is_verified set, and is not in
\* error_declarations, whatever was fixed after it.
C18_FixedStaysFixed ==
  \A l \in pa.fixed :
    /\ l \in DOMAIN pa.fix_history
    /\ l \in DOMAIN pa.declarations
    /\ pa.declarations[l].was_fixed
    /\ pa.declarations[l].is_verified
    /\ l \notin pa.error_declarations

\* base occurs in the name n as a whole word starting at identifier j
OccursAt(n, j, base) ==
  j + Len(base) - 1 <= Len(n) /\ SubSeq(n, j, j + Len(base) - 1) = base

\* every whole-word occurrence of base in n_orig reads new in n_ins
RewrittenIn(n_orig, n_ins, base, new) ==
  /\ Len(n_ins) = Len(n_orig)
  /\ \A j \in 1..Len(n_orig) : OccursAt(n_orig, j, base) => OccursAt(n_ins, j, new)

\* The texts the last fix was given, in the order their replacements were
\* inserted: the helpers, then the target
GivenTexts(l) ==
  [i \in 1..Len(l.replacement) |->
     IF i <= Len(l.new_lemmas) THEN l.new_lemmas[i].text
     ELSE l.fixed[CHOOSE k \in 1..Len(l.fixed) : l.fixed[k].name = l.lemma_name]]

\* C19: a helper of a fix whose name base was taken is renamed to base_k
\* with the least k >= 1 for which base_k is not taken; base_k was not
\* declared before the fix; every whole-word occurrence of base in the
\* inserted helpers and target reads base_k; and fix_history records
\* base -> base_k.
C19_HelperRenaming ==
  pa.last # <<>> =>
    LET l == pa.last
        given == GivenTexts(l)
    IN \A p \in 1..Len(l.new_lemmas) :
         LET base == l.new_lemmas[p].text.name
             taken == l.existing \cup {l.new_lemmas[q].name : q \in 1..(p - 1)}
             new == l.new_lemmas[p].name
         IN base \in taken =>
              /\ \E k \in 1..(Cardinality(taken) + 1) :
                   /\ new = Suffixed(base, k)
                   /\ new \notin taken
                   /\ \A j \in 1..(k - 1) : Suffixed(base, j) \in taken
              /\ new \notin l.existing
              /\ \A i \in 1..Len(given) :
                   /\ RewrittenIn(given[i].name, l.replacement[i].name, base, new)
                   /\ Len(l.replacement[i].refs) = Len(given[i].refs)
                   /\ \A r \in 1..Len(given[i].refs) :
                        RewrittenIn(given[i].refs[r], l.replacement[i].refs[r],
                                    base, new)
              /\ \E m \in 1..Len(pa.fix_history[l.lemma_name].renamings) :
                   pa.fix_history[l.lemma_name].renamings[m] = <<base, new>>


----------------------------------------------------------------------------
\* Claims about one lightweight pass (checked under SpecPass)

\* The revision round a pass suspended at pc enters when its step is over
NextRound(ps) == IF ps.pc = "init_comp" THEN 0 ELSE ps.round + 1

C21_LemmaCollection ==
  (search_kind = "mw" /\ orch.ret.returned) =>
    \A p \in PassIds : \A l \in pass[p].correct_lemmas :
      \E i \in DOMAIN orch.ret.lemma_collection :
        /\ orch.ret.lemma_collection[i].pass_id = p
        /\ l \in orch.ret.lemma_collection[i].lemmas

\* C23: the token usage of every subproblem search launched by a pass, a
\* pass cancelled while awaiting its fixes included, is in the token_usage
\* mediumweight_inference returns: the returned usage is the usage of every
\* response received by a pass or by a pass of a subproblem search.
C23_SubUsageReturned ==
  (search_kind = "mw" /\ orch.ret.returned) => orch.ret.token_usage = usage_seen

----------------------------------------------------------------------------
\* Claims about split_import_and_body (checked under SpecSplit)

\* import_block followed by lean_body
Recombined(r) == r.import_block \o r.lean_body

\* Recombining gives the text back, up to trailing whitespace.
RoundTrip(text, r) == RStrip(Recombined(r)) = RStrip(text)

\* The import lines the text starts with
RECURSIVE LeadingImports(_)
LeadingImports(lines) ==
  IF lines = <<>> \/ ~StartsWithImport(lines[1]) THEN <<>>
  ELSE <<lines[1]>> \o LeadingImports(Tail(lines))

\* The text starts with import lines without whitespace around them that are
\* the default block itself or name a module that is not a default one.
StartsWithKeptImports(text) ==
  LET run == LeadingImports(text)
  IN /\ run # <<>>
     /\ \A i \in 1..Len(run) : ~run[i].indent
     /\ run = DEFAULT_IMPORTS \/ ~(LinesOf(run) \subseteq LinesOf(DEFAULT_IMPORTS))

----------------------------------------------------------------------------
\* Claims about the pool restart (checked under SpecWorker)

\* The restart r is between its acquire and its end: shutting down the old
\* pool or creating the new one.
Restarting(r) == rst[r].pc \in {"shutdown", "create"}

\* C24: _perform_pool_restart never begins shutting down the current pool
\* while a run_batch issued by a compile endpoint is in progress on it, and
\* two restarts never overlap: no restart is past its acquire while a
\* run_batch is in progress or another restart is; a restart passes its
\* acquire, and the state of a pool changes, only while no run_batch is in
\* progress; and a restart that has acquired goes on to its end before
\* another one passes its acquire.
C24_RestartExcludesCompile ==
  /\ [](\A r \in RstIds : Restarting(r) =>
          /\ \A q \in ReqIds : req[q].pc # "run"
          /\ \A r2 \in RstIds \ {r} : ~Restarting(r2))
  /\ [][\A r \in RstIds :
          (~Restarting(r) /\ Restarting(r)') =>
             /\ \A q \in ReqIds : req[q].pc # "run"
             /\ \A r2 \in RstIds : ~Restarting(r2)]_vars
  /\ [][pool_state' # pool_state => \A q \in ReqIds : req[q].pc # "run"]_vars

\* A restart waits for the lock while a run_batch is in progress, and
\* another restart waits behind it.
C24_Witness ==
  \E q \in ReqIds :
    /\ req[q].pc = "run"
    /\ \A r \in RstIds : rst[r].pc = "wait"
    /\ pool_state[req[q].pool] = "ready"

\* C25: every _perform_pool_restart that acquired the pool mutex has
\* released it when it ends, on every exit path (success, an exception of
\* the shutdown or of the creation, cancellation while it awaits the
\* executor): the mutex is held by a restart only while that restart runs.
C25_RestartReleases ==
  \A r \in RstIds : pool_lock = <<"rst", r>> => Restarting(r)

----------------------------------------------------------------------------
\* Claims about the children of the pool (checked under SpecPool)

\* The entries of the result list and the envelopes in the queue or with a
\* child that carry the tags of env
Tagged(l, env) ==
  SelectSeq(l, LAMBDA r : r.batch_id = env.batch_id /\ r.index = env.index)

\* The steps the pool has to take before every run_batch under way has
\* returned: a put, a get and an append for a task not yet put, a get and an
\* append for an envelope in the queue, an append for one with a child, and
\* the poll that finds the batch complete.
RECURSIVE Unput(_)
Unput(c) == IF c = 0 THEN 0 ELSE (Len(rb[c].tasks) - rb[c].i) + Unput(c - 1)

WorkLeft ==
  3 * Unput(NumCallers) + 2 * Len(task_queue) + Cardinality(child)
    + Cardinality({c \in CallerIds : rb[c].pc \in {"put", "poll"}})

\* A step of the pool is possible (ENABLED PoolStep, from the guards of its
\* actions).
PoolCanStep ==
  \/ \E c \in CallerIds : rb[c].pc = "put"
  \/ \E c \in CallerIds :
       /\ rb[c].pc = "poll"
       /\ Len(ResultsForBatch(result_list, rb[c].batch_id)) >= Len(rb[c].tasks)
  \/ Cardinality(child) < NumChildren /\ task_queue # <<>>
  \/ child # {}

\* C26: every envelope a child takes from the task queue results in exactly
\* one entry appended to the result list, with that envelope's index and
\* batch id; when the compiler run crashes, times out or answers with
\* something that is not JSON, the entry has pass and complete false and
\* system_errors set, and the child goes on serving, so that run_batch
\* eventually returns: while a run_batch has not returned a step of the pool
\* is possible, and every step of the pool reduces the work that is left.
C26_OneEntryPerEnvelope ==
  /\ [][\A env \in child :
          env \notin child' =>
            \E e \in {FinalResponse(env)} :
              /\ result_list' = Append(result_list, e)
              /\ e.index = env.index /\ e.batch_id = env.batch_id
              /\ e.payload = env.payload
              /\ ReplRun(env.payload) \in ReplFailures =>
                   /\ ~e.compilation_result.pass
                   /\ ~e.compilation_result.complete
                   /\ e.compilation_result.system_errors # "None"
              /\ Cardinality(child') < NumChildren]_vars
  /\ [][Len(result_list') > Len(result_list) =>
          \E env \in child : env \notin child' /\ Len(result_list') = Len(result_list) + 1]_vars
  /\ [](\A env \in child : Tagged(result_list, env) = <<>> /\ Tagged(task_queue, env) = <<>>)
  /\ [](\A i \in 1..Len(result_list) : Len(Tagged(result_list, result_list[i])) = 1)
  /\ []((\E c \in CallerIds : rb[c].pc \in {"put", "poll"}) => PoolCanStep)
  /\ [][PoolStep => WorkLeft' < WorkLeft]_vars

\* A batch of two has returned; the compiler run of its first task timed
\* out, and the result of the second task came after it.
C26_Witness ==
  \E c \in CallerIds :
    /\ rb[c].pc = "done"
    /\ Len(rb[c].ret) = 2
    /\ ReplRun(rb[c].tasks[1]) \in ReplFailures
    /\ rb[c].ret[1].compilation_result.system_errors = "traceback"
    /\ rb[c].collected[1].index = 0

----------------------------------------------------------------------------
\* Claims about the pool map of the LLM gateway (checked under SpecGw)

\* C27: the pool map of the LLM gateway stays well formed: no pool holds two
\* records with the same url, no model maps to an empty pool, and the models
\* with a cursor are the models with a pool; a pool changes only by a
\* worker whose url it does not hold being appended (registering a url it
\* holds leaves it as it is) or by unhealthy workers being removed.
C27_PoolMapWellFormed ==
  /\ [](gw_kind = "llm" =>
          /\ DOMAIN MODEL_INDICES = DOMAIN WORKER_POOL
          /\ \A m \in DOMAIN WORKER_POOL :
               /\ WORKER_POOL[m] # <<>>
               /\ \A i, j \in 1..Len(WORKER_POOL[m]) :
                    WORKER_POOL[m][i].url = WORKER_POOL[m][j].url => i = j)
  /\ [][(gw_kind = "llm" /\ WORKER_POOL' # WORKER_POOL) =>
          \A m \in DOMAIN WORKER_POOL' :
            LET old == IF m \in DOMAIN WORKER_POOL THEN WORKER_POOL[m] ELSE <<>>
                new == WORKER_POOL'[m]
            IN \/ new = old
               \/ \E u \in Urls :
                    /\ \A i \in 1..Len(old) : old[i].url # u
                    /\ new = Append(old, WorkerInfo(u, m))
               \/ /\ hc.pc = "probe" /\ hc'.pc = "sleep"
                  /\ new = SelectSeq(old, LAMBDA w : w.url \notin hc.unhealthy)]_vars

\* After an eviction that removed the pool of m2, the evicted worker has
\* registered again for m1, whose pool holds two workers and has moved its
\* cursor.
C27_Witness ==
  /\ gw_kind = "llm"
  /\ hc.done /\ hc.unhealthy # {}
  /\ DOMAIN WORKER_POOL = {"m1"}
  /\ Len(WORKER_POOL["m1"]) = 2
  /\ WORKER_POOL["m1"][2].url \in hc.unhealthy
  /\ MODEL_INDICES["m1"] = 1

----------------------------------------------------------------------------
\* Claims about the dependency queries (checked under SpecDep)

\* The declarations reachable from n through dependencies, in one step or
\* more
RECURSIVE ReachFrom(_, _)
ReachFrom(d, seen) ==
  LET more == seen \cup UNION {d[x].dependencies : x \in seen}
  IN IF more = seen THEN seen ELSE ReachFrom(d, more)

Reachable(d, n) == ReachFrom(d, d[n].dependencies)

OnCycle(d, n) == n \in Reachable(d, n)

Acyclic(d) == \A n \in DeclNames : ~OnCycle(d, n)

\* The names get_fully_correct_lemmas listed
Listed == da.q.listed

\* C29: get_fully_correct_lemmas and is_lemma_fully_correct terminate on
\* every dependency graph, cycles included, and report every lemma on a
\* cycle as not fully correct: no query ends with RecursionError, a lemma on
\* a cycle is answered False and is not listed.
C29_CyclesNotFullyCorrect ==
  /\ da.q.at # "verified" => da.q.answer # "RecursionError"
  /\ (da.q.at = "answered" /\ OnCycle(da.declarations, da.q.lemma_name)) =>
       da.q.answer = "False"
  /\ \A n \in Listed : ~OnCycle(da.declarations, n)

\* L's own verification completed and so did that of every lemma or theorem
\* reachable from it.
AllReachableComplete(d, n) ==
  /\ d[n].kind = "complete"
  /\ \A m \in Reachable(d, n) : IsLemma(d[m].kind) => d[m].kind = "complete"

\* C30: on an acyclic dependency graph, after verification,
\* is_lemma_fully_correct(L) is true exactly when L's own verification
\* completed and that of every lemma or theorem reachable from L through
\* dependencies completed, and get_fully_correct_lemmas lists no lemma with
\* a failed or unverified lemma among its transitive dependencies.
C30_FullyCorrectIffAllComplete ==
  Acyclic(da.declarations) =>
    /\ da.q.at = "answered" =>
         (da.q.answer = "True" <=> AllReachableComplete(da.declarations, da.q.lemma_name))
    /\ \A n \in Listed : AllReachableComplete(da.declarations, n)

----------------------------------------------------------------------------
\* Claims about POST /register of the LLM gateway (checked under SpecReg)

\* C36: POST /register on the LLM gateway with a body missing url, model_name
\* or model_path is rejected with HTTP status 400 and leaves the pool map and
\* the cursors unchanged.
C36_MissingFieldIs400 ==
  /\ [][\A data \in RegisterBodies :
          RegisterLlmRefused(data) =>
            /\ WORKER_POOL' = WORKER_POOL
            /\ MODEL_INDICES' = MODEL_INDICES]_vars
  /\ [](reg # NoReg => reg.status = 400)

----------------------------------------------------------------------------
\* Claims about the record of a lightweight pass (checked under SpecPass)

\* C37: the record a lightweight pass returns pairs a code with the
\* compilation result obtained for that same code: the code of attempt k
\* comes with the result of the compilation of attempt k, also when revision
\* rounds were skipped because their inference or compilation raised, and the
\* empty code comes with the failure record that no compilation produced.
C37_CodeWithItsResult ==
  \A p \in PassIds :
    pass[p].end = "returned" =>
      /\ pass[p].rec.code = pass[p].rec.verdict
      /\ pass[p].rec.code = NoCode => ~pass[p].rec.complete

\* C37 witness: a pass returned the code of its initial attempt with the
\* result of the initial compilation after the compilation of a revision had
\* raised and the round was skipped.
C37_Witness ==
  \E p \in PassIds :
    /\ pass[p].end = "returned"
    /\ pass[p].rec.code = 0
    /\ pass[p].rec.verdict = 0
    /\ ~pass[p].rec.complete
    /\ pass[p].nComp >= 2

----------------------------------------------------------------------------
\* Claims about the verdict of a mediumweight pass (checked under SpecMw)

\* C38: a mediumweight pass reports compilation_result.complete = true only
\* when the whole file it returns as code was itself submitted to the
\* compilation scheduler, as the initial or the final compilation, and came
\* back complete; a pass that patched lemmas with fix_lemma and did not
\* recompile reports complete = false.
C38_CompleteMeansCompiled ==
  \A p \in PassIds :
    search_kind = "mw" /\ pass[p].end = "returned" =>
      /\ pass[p].rec.complete =>
           [code |-> pass[p].rec.code, complete |-> TRUE] \in pass[p].compiled
      /\ pass[p].nFinal = 0 /\ pass[p].fixed # {} => ~pass[p].rec.complete

\* C38 witness: a pass returned complete with the code that fix_lemma had
\* patched and the final compilation had found complete.
C38_Witness ==
  \E p \in PassIds :
    /\ search_kind = "mw"
    /\ pass[p].end = "returned"
    /\ pass[p].rec.complete
    /\ pass[p].fixed # {}
    /\ pass[p].rec.code = PatchedCode(pass[p].fixed)
    /\ Compiled(pass[p].rec.code, "complete") \in pass[p].compiled

----------------------------------------------------------------------------
\* Claims about the subproblems of a mediumweight pass (checked under SpecPA)

\* The lemmas and theorems whose verification failed
FailedVerification(a) ==
  {n \in DOMAIN a.declarations :
     /\ a.declarations[n].type \in {"lemma", "theorem"}
     /\ n \in DOMAIN a.lemma_compilation_results
     /\ ~a.lemma_compilation_results[n].complete}

\* verify_all_lemmas returns to the pass
Verifies == ~pa.verification_done /\ pa'.verification_done

\* C32: get_error_lemmas_sorted returns the lemmas and theorems that failed
\* verification in the order of their position in the source (ascending
\* start_line), and the pass launches the subproblem searches and applies
\* their fixes in that order.
C32_ErrorLemmasInSourceOrder ==
  /\ [][Verifies =>
          /\ pa'.error_list = SortedByStartLine(pa', FailedVerification(pa'))
          /\ Len(pa'.launched) = Len(pa'.error_list)
          /\ \A i \in 1..Len(pa'.launched) :
               pa'.launched[i].lemma_name = pa'.error_list[i]]_vars
  /\ [][\A i, j \in 1..Len(pa.error_list) :
          i < j /\ pa.error_list[j] \in pa'.fixed \ pa.fixed
            => pa.error_list[i] \notin pa.error_lemmas]_vars

\* The other lemmas and theorems a subproblem for lemma_name is to state as
\* axioms: those named in the proof body of lemma_name whose verification
\* completed
VerifiedProofDeps(a, lemma_name) ==
  {n \in GetProofDependencies(a, lemma_name) :
     /\ a.declarations[n].type \in {"lemma", "theorem"}
     /\ ResultComplete(a, n)}

\* The facts of a subproblem that come from lemmas and theorems, by name
LemmaFacts(a, s) ==
  SelectSeq([k \in 1..Len(s.facts) |-> s.facts[k][1].name],
            LAMBDA n : a.declarations[n].type \in {"lemma", "theorem"})

\* C31: the subproblem construct_subproblem gives for a target lemma L after
\* verification includes, of the other lemmas and theorems, exactly those
\* named in L's proof body whose verification completed, each in axiom form
\* (keyword swapped, proof dropped) and in source order; it never includes
\* L's own proof, a lemma whose verification failed, or a declaration L's
\* proof body does not reference.
C31_SubproblemFacts ==
  [][Verifies =>
       \A i \in 1..Len(pa'.launched) :
         LET s == pa'.launched[i]
         IN /\ LemmaFacts(pa', s) =
                 SortedByStartLine(pa', VerifiedProofDeps(pa', s.lemma_name))
            /\ \A k \in 1..Len(s.facts) :
                 /\ s.facts[k][1].type = "axiom"
                 /\ \A b \in 1..Len(s.facts[k]) : ~s.facts[k][b].has_proof
            /\ s.theorem.name = s.lemma_name
            /\ s.theorem.sorry]_vars

\* The lemmas and theorems of an analysis that have a proof
Proved(a) ==
  {n \in DOMAIN a.declarations :
     a.declarations[n].type \in {"lemma", "theorem"} /\ a.declarations[n].has_proof}

\* fix_lemma replaces a lemma
Fixes == pa'.fixed # pa.fixed

\* The lemma the fix replaces and the helpers it brings, under the names
\* they were given
FixedNames(l) == {l.lemma_name} \cup {l.new_lemmas[i].name : i \in 1..Len(l.new_lemmas)}

\* C33: after verify_all_lemmas and after any sequence of fix_lemma calls,
\* every lemma or theorem with a proof has is_verified = true exactly when
\* its recorded verification result is complete; fixing a lemma L does not
\* change is_verified of any lemma other than L and the helpers of the fix.
C33_VerifiedIffComplete ==
  /\ [](pa.verification_done =>
          \A n \in Proved(pa) : pa.declarations[n].is_verified <=> ResultComplete(pa, n))
  /\ [][Fixes =>
          \A n \in (DOMAIN pa.declarations \cap DOMAIN pa'.declarations)
                     \ FixedNames(pa'.last) :
            pa'.declarations[n].is_verified = pa.declarations[n].is_verified]_vars

\* full_text of a declaration: the lines from its start line to its end line
FullText(a, n) == SubSeq(a.lines, a.declarations[n].start_line, a.declarations[n].end_line)

\* The code outside the range of the lemma the fix replaced is what it was
CodeOutsideKept(a, b) ==
  LET original_info == a.declarations[b.last.lemma_name]
      k == Len(b.last.replacement)
  IN /\ Len(b.lines) = Len(a.lines) - (original_info.end_line - original_info.start_line + 1) + k
     /\ SubSeq(b.lines, 1, original_info.start_line - 1) =
          SubSeq(a.lines, 1, original_info.start_line - 1)
     /\ SubSeq(b.lines, original_info.start_line + k, Len(b.lines)) =
          SubSeq(a.lines, original_info.end_line + 1, Len(a.lines))

\* The helpers of the fix, stated as lemmas, stand where the lemma was, and
\* the text of the lemma right after them
HelpersThenLemma(a, b) ==
  LET start_line == a.declarations[b.last.lemma_name].start_line
      k == Len(b.last.new_lemmas)
  IN /\ \A i \in 1..k : /\ b.lines[start_line + i - 1].type = "lemma"
                        /\ b.lines[start_line + i - 1].has_proof
     /\ b.lines[start_line + k] = b.last.replacement[k + 1]
     /\ b.lines[start_line + k].type = a.declarations[b.last.lemma_name].type

\* Every declaration other than the replaced lemma is declared as before
OthersKept(a, b) ==
  LET others == DOMAIN a.declarations \ {b.last.lemma_name}
  IN /\ \A n \in others :
          /\ n \in DOMAIN b.declarations
          /\ b.declarations[n].type = a.declarations[n].type
          /\ FullText(b, n) = FullText(a, n)
     /\ \A n, m \in others \cap DOMAIN b.declarations :
          a.declarations[n].start_line < a.declarations[m].start_line
            => b.declarations[n].start_line < b.declarations[m].start_line

\* C34: fix_lemma(L, replacement) changes the code only within L's line
\* range [start_line, end_line]: every other declaration there was keeps its
\* kind, name and full text and its relative order; only L's text is
\* replaced, and the new helper lemmas are inserted immediately before it.
C34_FixFrame ==
  [][Fixes => /\ CodeOutsideKept(pa, pa')
              /\ HelpersThenLemma(pa, pa')
              /\ OthersKept(pa, pa')]_vars

\* The names under which the helpers of the last fix were inserted
InsertedHelperNames(l) == [p \in 1..Len(l.new_lemmas) |-> l.replacement[p].name]

\* C40: when the replacement given to fix_lemma has several helper lemmas,
\* after the fix each helper is declared under its own name (its original
\* name, or its name_mappings image if that name was taken): no two helpers
\* get the same name, and a renaming made for one helper never alters the
\* name of another helper or of its renamed form.
C40_HelpersKeepDistinctNames ==
  [][Fixes =>
       LET l == pa'.last
           inserted == InsertedHelperNames(l)
       IN /\ Distinct(inserted)
          /\ \A p \in 1..Len(l.new_lemmas) :
               /\ inserted[p] = l.new_lemmas[p].name
               /\ inserted[p] \in DOMAIN pa'.declarations
               /\ \/ inserted[p] = l.new_lemmas[p].text.name
                  \/ \E m \in 1..Len(l.name_mappings) :
                       l.name_mappings[m] = <<l.new_lemmas[p].text.name, inserted[p]>>]_vars

----------------------------------------------------------------------------
\* Claims about verify_all_lemmas on its event loop (checked under SpecVerify)

\* The verification file of a lemma as the code alone determines it: every
\* def, the axioms its proof uses, and every lemma and theorem its proof
\* uses as an axiom
FileOfCode(n) == ConstructVerificationCode(NewAnalysis(pa.lines), n)

\* Whether the compiler found that file complete
CompleteOfCode(n) ==
  FileOfCode(n) \in DOMAIN ver.oracle /\ ver.oracle[FileOfCode(n)] = "complete"

\* C39: verify_all_lemmas is deterministic with respect to scheduling: the
\* verification file built for each lemma, and with it the recorded results,
\* the final is_verified flags and error_declarations, are those the code
\* and the compiler's answers determine, in whatever order the compilations
\* are dispatched and complete.
C39_VerifyDeterministic ==
  /\ \A n \in DOMAIN ver.task :
       ver.task[n].pc # "created" => ver.task[n].code = FileOfCode(n)
  /\ \A n \in DOMAIN pa.lemma_compilation_results :
       ver.pc # "off" => (pa.lemma_compilation_results[n].complete <=> CompleteOfCode(n))
  /\ ver.pc = "done" =>
       /\ DOMAIN pa.lemma_compilation_results = Verifiable(pa)
       /\ \A n \in Verifiable(pa) : pa.declarations[n].is_verified <=> CompleteOfCode(n)
       /\ pa.error_declarations = {n \in Verifiable(pa) : ~CompleteOfCode(n)}

\* The verification is over; the results came in another order than the
\* tasks were made: the compilation of the first lemma, which the other two
\* use, ended last and was not complete, that of the second raised, and the
\* theorem, whose file states both as axioms, is verified.
C39_Witness ==
  /\ ver.pc = "done"
  /\ ver.recorded = <<LEM, AFOO, FOO>>
  /\ ver.oracle[FileOfCode(FOO)] = "incomplete"
  /\ ver.oracle[FileOfCode(LEM)] = "raises"
  /\ FileOfCode(AFOO).context_parts = <<FOO, LEM>>
  /\ pa.declarations[AFOO].is_verified
  /\ pa.error_declarations = {FOO, LEM}

====
